---- MODULE Spec2Model ----
(***************************************************************************)
(* The embedding analysis core of VE_Learning:                             *)
(*   src/lib/dimensionality-reduction.ts  performPCA, performTSNE,         *)
(*                                         reduceDimensions, clustering,    *)
(*                                         the similarity metrics,          *)
(*                                         compareSentences, findMostSimilar,*)
(*                                         calculateGroupSimilarity,        *)
(*                                         normalizeEmbeddings              *)
(*   src/components/header.tsx             generateEmbeddings (the caller)  *)
(*   src/app/api/embeddings/route.ts       loadModel, POST                  *)
(*   src/app/api/embeddings-simple/route.ts calculateSimpleEmbedding,       *)
(*                                         hashString, POST                 *)
(*                                                                         *)
(* Numbers are fixed point, in thousandths (1.0 is 1000).  An optional     *)
(* JavaScript value is a sequence of length 0 (undefined) or 1.            *)
(* The libraries (ml-pca, tsne-js, the Universal Sentence Encoder) are     *)
(* outside the repository: a call of one either throws or returns a value  *)
(* of the documented shape, chosen nondeterministically.                   *)
(*                                                                         *)
(* Spec and FairSpec are one analysis through reduceDimensions,            *)
(* ConcurrentSpec two calls of performTSNE in flight together, ApiSpec two *)
(* requests to the POST routes, LibSpec one call of an exported function.  *)
(***************************************************************************)
EXTENDS Integers, Sequences, FiniteSets, TLC

VARIABLES
    caller,         \* who called reduceDimensions: "none", "direct", "ui"
    embeddingData,  \* reduceDimensions' first argument
    config,         \* reduceDimensions' second argument
    status,         \* of the reduceDimensions call: none, awaiting, returned, thrown
    error,          \* message of the Error reduceDimensions threw ("" if none)
    result,         \* optional ProcessedEmbeddings reduceDimensions returned
    promise,        \* performTSNE's promise: [state, value]
    tsne,           \* the TSNE object: [made, inited, perplexity, dim, converged]
    iterations,     \* performTSNE's closure variable
    timer,          \* optional delay of the pending setTimeout(step, delay)
    failure,        \* where the iterative algorithm threw: [at, deferred]
    trace,          \* history: the functions that have been invoked or have thrown
    logged,         \* history: the progress lines written by step
    ui,             \* EmbeddingsVisualizer's state: [embeddings, processedData, comparisons, toast, saved]
    call,           \* a call of an exported function of the library: [fn, args, outcome]
    runs,           \* the calls of performTSNE in flight together, each with its closure
    server          \* the API routes' module: [model, loaded, requests]

vars == <<caller, embeddingData, config, status, error, result, promise, tsne,
          iterations, timer, failure, trace, logged, ui, call, runs, server>>

\* the variables of one analysis, of its caller and of a library call
analysis == <<caller, embeddingData, config, status, error, result, promise, tsne,
              iterations, timer, failure, trace, logged, ui, call>>

-----------------------------------------------------------------------------
(* Bounds of the model *)

\* the largest batch of records analysed
MaxN == 5

\* the largest batch of vectors or of candidates an exported function of the
\* library is called on
MaxBatch == 3

-----------------------------------------------------------------------------
(* Values *)

None == <<>>
Some(v) == <<v>>

Milli(x) == x * 1000

\* the outcome of a call: not yet run, a value returned, an Error thrown
Pending == [kind |-> "pending"]
Return(v) == [kind |-> "return", value |-> v]
Throw(m) == [kind |-> "throw", message |-> m]

Min(a, b) == IF a <= b THEN a ELSE b

\* const maxIterations = 500
maxIterations == 500

\* the vectors a record may carry: absent, empty, two of length 2, one of length 3
SampleEmbeddings ==
    { None, Some(<<>>), Some(<<Milli(1), 0>>), Some(<<0, Milli(1)>>),
      Some(<<Milli(1), 0, 0>>) }

\* EmbeddingData: record i is labelled i and identified by i
Record(i, e) == [id |-> i, sentence |-> i, embedding |-> e]

\* if (embeddings.length < 4): the smallest batch the iterative algorithm runs on
MinIterated == 4

\* the largest batch performTSNE lays out without the iterative algorithm
MaxSmall == MinIterated - 1

\* the small batches analysed: n records carrying one vector, but for the first
\* or the last record, which may carry another
SmallBatches(lo, hi) ==
    UNION { { [i \in 1..n |-> Record(i, IF i = p THEN odd ELSE base)] :
                p \in {1, n}, base \in SampleEmbeddings, odd \in SampleEmbeddings } :
            n \in lo..Min(hi, MaxSmall) }

\* the large batches analysed: n records carrying the same vector of length 2,
\* but for the last, which may carry one of length 3 or none
LargeBatches(hi) ==
    UNION { { [i \in 1..n |-> Record(i, IF i = n THEN odd ELSE Some(<<Milli(1), 0>>))] :
                odd \in {Some(<<Milli(1), 0>>), Some(<<Milli(1), 0, 0>>), None} } :
            n \in (MaxSmall + 1)..hi }

Batches(lo, hi) == SmallBatches(lo, hi) \cup LargeBatches(hi)

\* VisualizationConfig: method, dimensions, optional perplexity
Configs ==
    [method : {"pca", "tsne"}, dimensions : {2, 3},
     perplexity : {None, Some(1), Some(30)}]

-----------------------------------------------------------------------------
(* Arithmetic the code takes from JavaScript *)

\* Math.cos of a whole number of degrees, rounded to thousandths (values less
\* than 0.0005 apart, such as Math.cos(Math.PI / 2) and 0, are identified)
CosMilli(deg) ==
    CASE deg = 0 -> 1000   [] deg = 60 -> 500    [] deg = 72 -> 309
      [] deg = 90 -> 0     [] deg = 120 -> -500  [] deg = 144 -> -809
      [] deg = 180 -> -1000 [] deg = 216 -> -809 [] deg = 240 -> -500
      [] deg = 270 -> 0    [] deg = 288 -> 309   [] deg = 300 -> 500

\* Math.sin of a whole number of degrees, rounded to thousandths
SinMilli(deg) ==
    CASE deg = 0 -> 0      [] deg = 60 -> 866    [] deg = 72 -> 951
      [] deg = 90 -> 1000  [] deg = 120 -> 866   [] deg = 144 -> 588
      [] deg = 180 -> 0    [] deg = 216 -> -588  [] deg = 240 -> -866
      [] deg = 270 -> -1000 [] deg = 288 -> -951 [] deg = 300 -> -866

\* Math.random() - 0.5: the generator is deterministic from its hidden state,
\* so a call of the program sees the draws of one seed, in order (d = 0, 1, ...)
RandomSeeds == {0, 1, 2}
RandomMinusHalf(seed, d) ==
    LET values == <<-500, 0, 499>> IN values[((seed + d) % 3) + 1]

\* emb[c] for a 0-based index c: undefined past the end
At(emb, c) == IF c + 1 <= Len(emb) THEN Some(emb[c + 1]) ELSE None

\* a falsy value (undefined, 0) in "value || other"
Falsy(opt) == IF opt = None THEN TRUE ELSE opt[1] = 0

\* [..].slice(0, dimensions)
Slice(s, k) == SubSeq(s, 1, Min(k, Len(s)))

RECURSIVE SumBetween(_, _, _)
\* the sum of s[lo] to s[hi], by halves (a vector may have 512 components)
SumBetween(s, lo, hi) ==
    IF lo > hi THEN 0
    ELSE IF lo = hi THEN s[lo]
    ELSE LET mid == (lo + hi) \div 2
         IN  SumBetween(s, lo, mid) + SumBetween(s, mid + 1, hi)

SumSeq(s) == SumBetween(s, 1, Len(s))

RECURSIVE SortAsc(_)
\* Array.prototype.sort((a, b) => a - b)
SortAsc(s) ==
    IF s = <<>> THEN <<>>
    ELSE LET rest == SortAsc(Tail(s))
             lo == SelectSeq(rest, LAMBDA v : v < Head(s))
             hi == SelectSeq(rest, LAMBDA v : v >= Head(s))
         IN  lo \o <<Head(s)>> \o hi

RECURSIVE SqrtFrom(_, _)
\* the largest whole r with r * r <= n, for n > 0: Newton's iteration, down
\* from a start r that is at least that root
SqrtFrom(n, r) ==
    LET next == (r + n \div r) \div 2
    IN  IF next >= r THEN r ELSE SqrtFrom(n, next)

\* Math.sqrt of x thousandths, in thousandths: exact where the root is a
\* whole number of thousandths, rounded down elsewhere
Sqrt(x) ==
    LET n == x * 1000
    IN  IF n = 0 THEN 0
        ELSE SqrtFrom(n, IF n <= 1000000 THEN 1000
                         ELSE IF n <= 4000000 THEN 2000 ELSE 46340)

-----------------------------------------------------------------------------
(* performPCA *)

\* mutant: the placeholder counts its points from 1
PCAPlaceholderOneBased(embeddings, dimensions) ==
    [reduced  |-> [i \in 1..Len(embeddings) |-> Slice(<<Milli(i), 0, 0>>, dimensions)],
     variance |-> [c \in 1..dimensions |-> 500],
     ran      |-> FALSE,
     failed   |-> FALSE]

\* the N < 2 branch: [i, 0, 0].slice(0, dimensions), variance 0.5 each
PCAPlaceholder(embeddings, dimensions) ==
    [reduced  |-> [i \in 1..Len(embeddings) |-> Slice(<<Milli(i - 1), 0, 0>>, dimensions)],
     variance |-> [c \in 1..dimensions |-> 500],
     ran      |-> FALSE,
     failed   |-> FALSE]

\* new Matrix(embeddings) throws on rows of different lengths, and
\* pca.predict(matrix, { nComponents }) on more components than columns
PCAMustThrow(embeddings, dimensions) ==
    \/ \E i, j \in 1..Len(embeddings) : Len(embeddings[i]) # Len(embeddings[j])
    \/ Len(embeddings[1]) < dimensions

\* what a library returns for n points in k dimensions: a line, a single spot,
\* a grid
LibLayouts(n, k) ==
    { [i \in 1..n |-> Slice(<<Milli(i - 1), 0, 0>>, k)],
      [i \in 1..n |-> Slice(<<0, 0, 0>>, k)],
      [i \in 1..n |-> Slice(<<Milli((i - 1) % 2), Milli((i - 1) \div 2), Milli(i % 2)>>, k)] }

\* pca.getExplainedVariance(): one value per column of the data, descending
ExplainedVariance(d) == Slice(<<600, 300, 100>>, d)

\* mutant: the explained variance is returned whole, not cut to the dimensions
PCASuccessVarianceUncut(embeddings, dimensions, layout) ==
    [reduced  |-> layout,
     variance |-> ExplainedVariance(Len(embeddings[1])),
     ran      |-> TRUE,
     failed   |-> FALSE]

\* the try branch that succeeds
PCASuccess(embeddings, dimensions, layout) ==
    [reduced  |-> layout,
     variance |-> Slice(ExplainedVariance(Len(embeddings[1])), dimensions),
     ran      |-> TRUE,
     failed   |-> FALSE]

RECURSIVE PCAFallbackRows(_, _, _, _)
\* the catch branch's map: row i is [emb[0] || i, emb[1] || random, emb[2] || random];
\* d counts the draws made so far
PCAFallbackRows(embeddings, i, seed, d) ==
    IF i > Len(embeddings) THEN <<>>
    ELSE LET emb == embeddings[i]
             d1  == IF Falsy(At(emb, 1)) THEN d + 1 ELSE d
             d2  == IF Falsy(At(emb, 2)) THEN d1 + 1 ELSE d1
             row == << IF Falsy(At(emb, 0)) THEN Milli(i - 1) ELSE emb[1],
                       IF Falsy(At(emb, 1)) THEN RandomMinusHalf(seed, d) ELSE emb[2],
                       IF Falsy(At(emb, 2)) THEN RandomMinusHalf(seed, d1) ELSE emb[3] >>
         IN  <<row>> \o PCAFallbackRows(embeddings, i + 1, seed, d2)

\* mutant: the fallback's rows are not cut to the dimensions asked for
PCAFallbackUncut(embeddings, dimensions, seed) ==
    [reduced  |-> PCAFallbackRows(embeddings, 1, seed, 0),
     variance |-> [c \in 1..dimensions |-> 300],
     ran      |-> TRUE,
     failed   |-> TRUE]

\* the catch branch: variance 0.3 each
PCAFallback(embeddings, dimensions, seed) ==
    [reduced  |-> LET rows == PCAFallbackRows(embeddings, 1, seed, 0)
                  IN  [i \in 1..Len(rows) |-> Slice(rows[i], dimensions)],
     variance |-> [c \in 1..dimensions |-> 300],
     ran      |-> TRUE,
     failed   |-> TRUE]

\* every value performPCA may return for these arguments
performPCA(embeddings, dimensions) ==
    IF Len(embeddings) < 2
    THEN { PCAPlaceholder(embeddings, dimensions) }
    ELSE { PCAFallback(embeddings, dimensions, seed) : seed \in RandomSeeds }
         \cup (IF PCAMustThrow(embeddings, dimensions) THEN {}
               ELSE { PCASuccess(embeddings, dimensions, layout) :
                        layout \in LibLayouts(Len(embeddings), dimensions) })

-----------------------------------------------------------------------------
(* performTSNE's layouts *)

\* angle = (i / embeddings.length) * 2 * Math.PI, in degrees
AngleDeg(i, n) == (i * 360) \div n

\* mutant: the small layout drawn with the fallback's radius
SimpleLayoutRadius2(n, dimensions, seed) ==
    [j \in 1..n |->
        Slice(<<CosMilli(AngleDeg(j - 1, n)) * 2, SinMilli(AngleDeg(j - 1, n)) * 2>>
              \o (IF dimensions = 3 THEN <<RandomMinusHalf(seed, j - 1)>> ELSE <<>>),
              dimensions)]

\* the N < 4 branch: radius 1, third coordinate random
SimpleLayout(n, dimensions, seed) ==
    [j \in 1..n |->
        Slice(<<CosMilli(AngleDeg(j - 1, n)), SinMilli(AngleDeg(j - 1, n))>>
              \o (IF dimensions = 3 THEN <<RandomMinusHalf(seed, j - 1)>> ELSE <<>>),
              dimensions)]

\* the catch branch: radius 2, third coordinate sin(2 * angle)
FallbackLayout(n, dimensions) ==
    [j \in 1..n |->
        Slice(<<CosMilli(AngleDeg(j - 1, n)) * 2, SinMilli(AngleDeg(j - 1, n)) * 2>>
              \o (IF dimensions = 3
                  THEN <<SinMilli((2 * AngleDeg(j - 1, n)) % 360)>> ELSE <<>>),
              dimensions)]

\* mutant: the perplexity passed on as configured
Unclamped(perplexity, n) == perplexity

\* perplexity: Math.min(perplexity, Math.floor((embeddings.length - 1) / 3))
ClampPerplexity(perplexity, n) == Min(perplexity, (n - 1) \div 3)

\* config.perplexity || Math.min(30, Math.floor((embeddings.length - 1) / 3))
PerplexityArgument(cfg, n) ==
    IF Falsy(cfg.perplexity) THEN Min(30, (n - 1) \div 3) ELSE cfg.perplexity[1]

-----------------------------------------------------------------------------
(* reduceDimensions' formatting and performSimpleClustering *)

\* mutant: labels and identifiers taken from the other end of the batch
FormatReducedReversed(reduced, data, cfg) ==
    [i \in 1..Len(reduced) |->
        [x     |-> reduced[i][1],
         y     |-> reduced[i][2],
         z     |-> IF cfg.dimensions = 3 THEN Some(reduced[i][3]) ELSE None,
         label |-> data[Len(data) + 1 - i].sentence,
         id    |-> data[Len(data) + 1 - i].id]]

FormatReduced(reduced, data, cfg) ==
    [i \in 1..Len(reduced) |->
        [x     |-> reduced[i][1],
         y     |-> reduced[i][2],
         z     |-> IF cfg.dimensions = 3 THEN Some(reduced[i][3]) ELSE None,
         label |-> data[i].sentence,
         id    |-> data[i].id]]

QuadrantNames == <<"Top-Right", "Top-Left", "Bottom-Right", "Bottom-Left">>

\* xValues[Math.floor(xValues.length / 2)] of the sorted values
MedianOf(values) == SortAsc(values)[(Len(values) \div 2) + 1]

\* mutant: a coordinate equal to the median counted on the lesser side
QuadrantOfStrict(point, xMedian, yMedian) ==
    IF point.x > xMedian /\ point.y > yMedian THEN 1
    ELSE IF point.x <= xMedian /\ point.y > yMedian THEN 2
    ELSE IF point.x > xMedian /\ point.y <= yMedian THEN 3
    ELSE 4

QuadrantOf(point, xMedian, yMedian) ==
    IF point.x >= xMedian /\ point.y >= yMedian THEN 1
    ELSE IF point.x < xMedian /\ point.y >= yMedian THEN 2
    ELSE IF point.x >= xMedian /\ point.y < yMedian THEN 3
    ELSE 4

\* a mean, kept exact as sum over count
MeanOf(values) == [sum |-> SumSeq(values), count |-> Len(values)]

\* lines 198-236: the clusters of the four quadrants about the medians
QuadrantClusters(reducedData) ==
         LET xMedian == MedianOf([i \in 1..Len(reducedData) |-> reducedData[i].x])
             yMedian == MedianOf([i \in 1..Len(reducedData) |-> reducedData[i].y])
             points(q) == SelectSeq(reducedData,
                                    LAMBDA p : QuadrantOf(p, xMedian, yMedian) = q)
             filled == SelectSeq(<<1, 2, 3, 4>>, LAMBDA q : Len(points(q)) > 0)
         IN  [c \in 1..Len(filled) |->
                LET ps == points(filled[c]) IN
                [centroid |-> << MeanOf([i \in 1..Len(ps) |-> ps[i].x]),
                                 MeanOf([i \in 1..Len(ps) |-> ps[i].y]) >>,
                 sentences |-> [i \in 1..Len(ps) |-> ps[i].label],
                 averageSimilarity |-> 500,
                 label |-> QuadrantNames[filled[c]]]]

\* mutant: a single point is clustered too
performSimpleClusteringUnguarded(reducedData) ==
    IF Len(reducedData) < 1 THEN <<>> ELSE QuadrantClusters(reducedData)

performSimpleClustering(reducedData) ==
    IF Len(reducedData) < 2 THEN <<>> ELSE QuadrantClusters(reducedData)

\* the ProcessedEmbeddings reduceDimensions returns
Processed(reduced, variance, data, cfg) ==
    LET formattedReduced == FormatReduced(reduced, data, cfg) IN
    [original |-> data,
     reduced  |-> formattedReduced,
     clusters |-> performSimpleClustering(formattedReduced),
     method   |-> cfg.method,
     variance |-> variance]


-----------------------------------------------------------------------------
(* The similarity metrics, compareSentences and generateEmbeddings'         *)
(* comparison loop.  A metric named as in the source is the function's body *)
(* after its length check; its ...Outcome is the whole call.                *)

Abs(x) == IF x < 0 THEN -x ELSE x

MismatchMessage == "Vectors must have the same length"

\* a.reduce((sum, val, i) => sum + val * b[i], 0), in thousandths
dotProduct(a, b) == SumSeq([i \in 1..Len(a) |-> (a[i] * b[i]) \div 1000])

\* a.reduce((sum, val, i) => sum + Math.abs(val - b[i]), 0)
manhattanDistance(a, b) == SumSeq([i \in 1..Len(a) |-> Abs(a[i] - b[i])])

\* mutant: the lengths are checked only against a longer first vector
FirstIsLonger(a, b) == Len(a) > Len(b)

\* every metric throws 'Vectors must have the same length' on this
DimensionMismatch(a, b) == Len(a) # Len(b)

\* a.reduce((sum, val) => sum + val * val, 0), in thousandths
SumOfSquares(a) == SumSeq([i \in 1..Len(a) |-> (a[i] * a[i]) \div 1000])

\* mutant: two vectors one of which is zero are given similarity 1
cosineSimilarityZeroAsOne(a, b) ==
    LET magnitudeA == Sqrt(SumOfSquares(a))
        magnitudeB == Sqrt(SumOfSquares(b))
    IN  IF magnitudeA = 0 \/ magnitudeB = 0 THEN Milli(1)
        ELSE (dotProduct(a, b) * 1000) \div ((magnitudeA * magnitudeB) \div 1000)

\* lines 260-268
cosineSimilarity(a, b) ==
    LET magnitudeA == Sqrt(SumOfSquares(a))
        magnitudeB == Sqrt(SumOfSquares(b))
    IN  IF magnitudeA = 0 \/ magnitudeB = 0 THEN 0
        ELSE (dotProduct(a, b) * 1000) \div ((magnitudeA * magnitudeB) \div 1000)

\* lines 279-284
euclideanDistance(a, b) ==
    Sqrt(SumSeq([i \in 1..Len(a) |-> ((a[i] - b[i]) * (a[i] - b[i])) \div 1000]))

\* mutant: each vector is divided by its sum of squares, the root forgotten
normalizeBySumOfSquares(embeddings) ==
    [i \in 1..Len(embeddings) |->
        LET embedding == embeddings[i]
            magnitude == SumOfSquares(embedding)
        IN  IF magnitude > 0
            THEN [c \in 1..Len(embedding) |-> (embedding[c] * 1000) \div magnitude]
            ELSE embedding]

\* lines 244-249; val / magnitude is rounded down to a thousandth, as the
\* quotient of two doubles is rounded to a double
normalizeEmbeddings(embeddings) ==
    [i \in 1..Len(embeddings) |->
        LET embedding == embeddings[i]
            magnitude == Sqrt(SumOfSquares(embedding))
        IN  IF magnitude > 0
            THEN [c \in 1..Len(embedding) |-> (embedding[c] * 1000) \div magnitude]
            ELSE embedding]

cosineSimilarityOutcome(a, b) ==
    IF DimensionMismatch(a, b) THEN Throw(MismatchMessage)
    ELSE Return(cosineSimilarity(a, b))

euclideanDistanceOutcome(a, b) ==
    IF DimensionMismatch(a, b) THEN Throw(MismatchMessage)
    ELSE Return(euclideanDistance(a, b))

manhattanDistanceOutcome(a, b) ==
    IF DimensionMismatch(a, b) THEN Throw(MismatchMessage)
    ELSE Return(manhattanDistance(a, b))

dotProductOutcome(a, b) ==
    IF DimensionMismatch(a, b) THEN Throw(MismatchMessage)
    ELSE Return(dotProduct(a, b))

calculateSimilarityMetrics(embedding1, embedding2) ==
    [cosineSimilarity  |-> cosineSimilarity(embedding1, embedding2),
     euclideanDistance |-> euclideanDistance(embedding1, embedding2),
     manhattanDistance |-> manhattanDistance(embedding1, embedding2),
     dotProduct        |-> dotProduct(embedding1, embedding2)]

\* the four calls in the order of the object literal: the first throw ends it
calculateSimilarityMetricsOutcome(embedding1, embedding2) ==
    LET called == << cosineSimilarityOutcome(embedding1, embedding2),
                     euclideanDistanceOutcome(embedding1, embedding2),
                     manhattanDistanceOutcome(embedding1, embedding2),
                     dotProductOutcome(embedding1, embedding2) >>
        thrown == { k \in 1..4 : called[k].kind = "throw" }
    IN  IF thrown # {}
        THEN called[CHOOSE k \in thrown : \A h \in thrown : k <= h]
        ELSE Return(calculateSimilarityMetrics(embedding1, embedding2))

\* mutant: a score equal to a threshold falls in the band below
MoreThan(cosineSim, threshold) == cosineSim > threshold

\* cosineSim >= 0.9, cosineSim >= 0.8, ...
AtLeast(cosineSim, threshold) == cosineSim >= threshold

interpretSimilarity(cosineSim) ==
    IF AtLeast(cosineSim, 900)
    THEN [interpretation  |-> "Extremely similar - nearly identical meaning",
          confidenceLevel |-> "high"]
    ELSE IF AtLeast(cosineSim, 800)
    THEN [interpretation  |-> "Very similar - closely related concepts",
          confidenceLevel |-> "high"]
    ELSE IF AtLeast(cosineSim, 700)
    THEN [interpretation  |-> "Similar - related themes or topics",
          confidenceLevel |-> "medium"]
    ELSE IF AtLeast(cosineSim, 500)
    THEN [interpretation  |-> "Somewhat similar - some shared concepts",
          confidenceLevel |-> "medium"]
    ELSE IF AtLeast(cosineSim, 300)
    THEN [interpretation  |-> "Slightly similar - few shared elements",
          confidenceLevel |-> "low"]
    ELSE [interpretation  |-> "Different - distinct meanings or topics",
          confidenceLevel |-> "low"]

compareSentences(sentence1, sentence2, embedding1, embedding2) ==
    LET metrics == calculateSimilarityMetrics(embedding1, embedding2)
        read    == interpretSimilarity(metrics.cosineSimilarity)
    IN  [sentence1       |-> sentence1,
         sentence2       |-> sentence2,
         metrics         |-> metrics,
         interpretation  |-> read.interpretation,
         confidenceLevel |-> read.confidenceLevel]

compareSentencesOutcome(sentence1, sentence2, embedding1, embedding2) ==
    LET metrics == calculateSimilarityMetricsOutcome(embedding1, embedding2)
    IN  IF metrics.kind = "throw" THEN metrics
        ELSE Return(compareSentences(sentence1, sentence2, embedding1, embedding2))

RECURSIVE ScanCandidates(_, _, _, _, _)
\* candidates.forEach(...), lines 398-406, from the closure variables
\* maxSimilarity and mostSimilar
ScanCandidates(targetSentence, targetEmbedding, candidates, maxSimilarity, mostSimilar) ==
    IF candidates = <<>>
    THEN Return([maxSimilarity |-> maxSimilarity, mostSimilar |-> mostSimilar])
    ELSE LET candidate == Head(candidates) IN
         IF candidate.sentence # targetSentence
         THEN LET similarity ==
                      cosineSimilarityOutcome(targetEmbedding, candidate.embedding[1])
              IN  IF similarity.kind = "throw" THEN similarity
                  ELSE IF similarity.value > maxSimilarity
                  THEN ScanCandidates(targetSentence, targetEmbedding,
                                      Tail(candidates), similarity.value,
                                      candidate.sentence)
                  ELSE ScanCandidates(targetSentence, targetEmbedding,
                                      Tail(candidates), maxSimilarity, mostSimilar)
         ELSE ScanCandidates(targetSentence, targetEmbedding, Tail(candidates),
                             maxSimilarity, mostSimilar)

\* lines 388-409; the label '' of the start is written 0 (records are
\* labelled from 1)
findMostSimilar(targetSentence, targetEmbedding, candidates) ==
    IF Len(candidates) = 0 THEN Return(None)
    ELSE LET scan == ScanCandidates(targetSentence, targetEmbedding, candidates,
                                    Milli(-1), 0)
         IN  IF scan.kind = "throw" THEN scan
             ELSE IF scan.value.maxSimilarity > Milli(-1)
             THEN Return(Some([sentence   |-> scan.value.mostSimilar,
                               similarity |-> scan.value.maxSimilarity]))
             ELSE Return(None)

\* mutant: after the first, the inner loop starts at j = i
RECURSIVE PairsWithSelf(_, _, _)
PairsWithSelf(i, j, n) ==
    IF i > n THEN <<>>
    ELSE IF j > n THEN PairsWithSelf(i + 1, i + 1, n)
    ELSE <<(<<i, j>>)>> \o PairsWithSelf(i, j + 1, n)

\* the pairs (i, j), i < j, in the order of the two nested loops
RECURSIVE PairsFrom(_, _, _)
PairsFrom(i, j, n) ==
    IF i > n THEN <<>>
    ELSE IF j > n THEN PairsFrom(i + 1, i + 2, n)
    ELSE <<(<<i, j>>)>> \o PairsFrom(i, j + 1, n)

RECURSIVE SumSimilarities(_, _, _)
\* the nested loops' body, lines 422-423, over the pairs left
SumSimilarities(embeddings, pairs, totalSimilarity) ==
    IF pairs = <<>> THEN Return(totalSimilarity)
    ELSE LET similarity == cosineSimilarityOutcome(embeddings[Head(pairs)[1]],
                                                   embeddings[Head(pairs)[2]])
         IN  IF similarity.kind = "throw" THEN similarity
             ELSE SumSimilarities(embeddings, Tail(pairs),
                                  totalSimilarity + similarity.value)

\* lines 414-428
calculateGroupSimilarity(embeddings) ==
    IF Len(embeddings) < 2 THEN Return(Milli(1))
    ELSE LET pairs == PairsFrom(1, 2, Len(embeddings))
             comparisons == Len(pairs)
             totalSimilarity == SumSimilarities(embeddings, pairs, 0)
         IN  IF totalSimilarity.kind = "throw" THEN totalSimilarity
             ELSE Return(IF comparisons > 0
                         THEN totalSimilarity.value \div comparisons ELSE 0)

\* the loop throws when a pair's vectors differ in length
ComparisonThrows(data) ==
    \E i, j \in 1..Len(data) :
        DimensionMismatch(data[i].embedding[1], data[j].embedding[1])

\* mutant: only neighbouring records are compared
newComparisonsAdjacent(data) ==
    [k \in 1..(Len(data) - 1) |->
        compareSentences(data[k].sentence, data[k + 1].sentence,
                         data[k].embedding[1], data[k + 1].embedding[1])]

newComparisons(data) ==
    LET pairs == PairsFrom(1, 2, Len(data)) IN
    [k \in 1..Len(pairs) |->
        compareSentences(data[pairs[k][1]].sentence, data[pairs[k][2]].sentence,
                         data[pairs[k][1]].embedding[1], data[pairs[k][2]].embedding[1])]

\* generateEmbeddings up to its call of reduceDimensions
UIStarted(u, data) ==
    [u EXCEPT !.isLoading = TRUE, !.embeddings = data]

\* generateEmbeddings after reduceDimensions has returned processed
UIAfterReturn(u, data, processed) ==
    IF ComparisonThrows(data)
    THEN [u EXCEPT !.processedData = Some(processed), !.toast = "Analysis Failed",
                   !.isLoading = FALSE]
    ELSE [u EXCEPT !.processedData = Some(processed),
                   !.comparisons = Some(newComparisons(data)),
                   !.saved = TRUE, !.toast = "Analysis Complete!", !.isLoading = FALSE]

\* generateEmbeddings' catch and finally, after reduceDimensions has thrown
UIAfterThrow(u) ==
    [u EXCEPT !.toast = "Analysis Failed", !.isLoading = FALSE]

-----------------------------------------------------------------------------
(* The state machine *)

NoEmbeddingsMessage == "No embeddings provided for dimensionality reduction"
InvalidEmbeddingsMessage == "Invalid embeddings detected"

\* mutant: only a missing vector is looked for, not an empty one
SomeUndefined(data) == \E i \in 1..Len(data) : data[i].embedding = None

\* embeddings.some(emb => !emb || emb.length === 0)
SomeInvalid(data) ==
    \E i \in 1..Len(data) :
        IF data[i].embedding = None THEN TRUE ELSE Len(data[i].embedding[1]) = 0

\* the vectors themselves, once validated
Vectors(data) == [i \in 1..Len(data) |-> data[i].embedding[1]]

\* no exported function of the library has been called on its own
-----------------------------------------------------------------------------
(* The simple embedding of src/app/api/embeddings-simple/route.ts.  A text  *)
(* is the sequence of its UTF-16 code units.  A 32-bit integer is kept as a *)
(* whole number from -2^31 to 2^31 - 1 and computed on in 16-bit halves.    *)

\* new Array(512) of line 10, and the modulus of line 15
embeddingDimensions == 512

\* the unsigned 16-bit halves of the 32-bit integer h
Halves(h) == [hi |-> (h \div 65536) % 65536, lo |-> h % 65536]

\* ToInt32 of the number hi * 2^16 + lo: reduced modulo 2^32 into the signed
\* range
ToInt32(hi, lo) ==
    LET low  == lo % 65536
        high == (hi + (lo \div 65536)) % 65536
    IN  IF high >= 32768 THEN (high - 65536) * 65536 + low ELSE high * 65536 + low

\* line 28-29: hash = ((hash << 5) - hash) + char; hash = hash & hash
HashStep(hash, char) ==
    LET shifted == Halves(ToInt32(Halves(hash).hi * 32, Halves(hash).lo * 32))
        own     == Halves(hash)
    IN  ToInt32(shifted.hi - own.hi, shifted.lo - own.lo + char)

RECURSIVE HashUpTo(_, _)
\* hash after the loop of lines 26-30 has read the first n code units
HashUpTo(str, n) == IF n = 0 THEN 0 ELSE HashStep(HashUpTo(str, n - 1), str[n])

\* lines 24-32
hashString(str) == HashUpTo(str, Len(str))

\* mutant: the remainder taken of the hash itself, with the hash's sign
SlotOfSignedHash(wordHash) ==
    IF wordHash >= 0 THEN wordHash % embeddingDimensions
    ELSE 0 - ((embeddingDimensions - (wordHash % embeddingDimensions)) % embeddingDimensions)

\* line 15: Math.abs(wordHash) % 512; the absolute value is a double, so that
\* of -2^31 is 2^31
Slot(wordHash) ==
    IF wordHash >= 0 THEN wordHash % embeddingDimensions
    ELSE (embeddingDimensions - (wordHash % embeddingDimensions)) % embeddingDimensions

\* \w of the regular expression: a digit, a letter or the underscore
IsWordChar(c) == c \in (48..57) \cup (65..90) \cup {95} \cup (97..122)

\* toLowerCase of a code unit
ToLowerCase(c) == IF c \in 65..90 THEN c + 32 ELSE c

RECURSIVE WordEnd(_, _)
\* the index after the run of word characters that starts at i
WordEnd(text, i) ==
    IF i > Len(text) THEN i
    ELSE IF IsWordChar(text[i]) THEN WordEnd(text, i + 1) ELSE i

RECURSIVE MatchFrom(_, _)
\* the matches of /\b\w+\b/g from code unit i on: the maximal runs of word
\* characters
MatchFrom(text, i) ==
    IF i > Len(text) THEN <<>>
    ELSE IF IsWordChar(text[i])
    THEN <<SubSeq(text, i, WordEnd(text, i) - 1)>> \o MatchFrom(text, WordEnd(text, i))
    ELSE MatchFrom(text, i + 1)

\* line 6: text.toLowerCase().match(/\b\w+\b/g) || []
MatchWords(text) == MatchFrom([i \in 1..Len(text) |-> ToLowerCase(text[i])], 1)

RECURSIVE AddWords(_, _, _)
\* lines 13-17: the forEach from word index on; the array is indexed from 1
\* here, and an index outside the array adds a property, not an element
AddWords(embedding, words, index) ==
    IF index > Len(words) THEN embedding
    ELSE LET position == Slot(hashString(words[index]))
         IN  AddWords([p \in 1..Len(embedding) |->
                          IF p = position + 1
                          THEN embedding[p] + 1000 \div index ELSE embedding[p]],
                      words, index + 1)

\* lines 4-22
calculateSimpleEmbedding(text) ==
    LET words == MatchWords(text)
        embedding == AddWords([p \in 1..embeddingDimensions |-> 0], words, 1)
        magnitude == Sqrt(SumOfSquares(embedding))
    IN  IF magnitude > 0
        THEN [p \in 1..Len(embedding) |-> (embedding[p] * 1000) \div magnitude]
        ELSE embedding

-----------------------------------------------------------------------------
(* The two POST routes, src/app/api/embeddings/route.ts (the Universal      *)
(* Sentence Encoder) and src/app/api/embeddings-simple/route.ts.  A handler *)
(* runs from one await to the next as one step; what it awaits (the body,   *)
(* the imports, the model, the tensor, its array) arrives or fails.         *)

\* the most sentences a request may hold, line 43 (and line 46 of the simple
\* route)
maxSentences == 50

\* the two requests served at the same time
RequestIds == {1, 2}

Routes == {"embeddings", "embeddings-simple"}

\* the sentences of a body that holds n: "a" and "Hi hi" in turn
Sentences(n) == [i \in 1..n |-> IF i % 2 = 1 THEN <<97>> ELSE <<72, 105, 32, 104, 105>>]

\* what request.json() gives: a body that is not JSON, or the body's
\* sentences field: missing, a string, an array of 0, 1, 2, 50 or 51 sentences
Bodies ==
    { [kind |-> k, items |-> <<>>] : k \in {"malformed", "undefined", "string"} }
    \cup { [kind |-> "array", items |-> Sentences(n)] :
             n \in {0, 1, 2, maxSentences, maxSentences + 1} }

\* a request not yet received: where its handler waits, the body it read, the
\* model loadModel returned to it, its embeddings tensor, what was done for
\* it, its response
NoRequest ==
    [route |-> "none", at |-> "none", body |-> [kind |-> "none", items |-> <<>>],
     useModel |-> None, tensor |-> "none", did |-> {}, response |-> None]

\* let model: any = null (line 4), the loads completed, the requests
ServerStart ==
    [model |-> None, loaded |-> 0, requests |-> [r \in RequestIds |-> NoRequest]]

\* lines 36 and 39: !sentences || !Array.isArray(sentences) || sentences.length === 0
InvalidInput400(body) == body.kind # "array" \/ Len(body.items) = 0

\* mutant: a request of exactly 50 sentences is turned away
TooManyFromFifty(body) == Len(body.items) >= maxSentences

\* lines 43 and 46: sentences.length > 50
TooMany(body) == Len(body.items) > maxSentences

\* NextResponse.json({ error }, { status })
ErrorResponse(code, message) ==
    [status |-> code, error |-> message, embeddings |-> <<>>, dimensions |-> 0,
     count |-> 0]

\* NextResponse.json({ embeddings, dimensions, count, ... })
Success(embeddings, dimensions) ==
    [status |-> 200, error |-> "", embeddings |-> embeddings,
     dimensions |-> dimensions, count |-> Len(embeddings)]

\* the handler of a request returns its response
Answered(request, response) ==
    [request EXCEPT !.at = "done", !.response = Some(response)]

\* the catch of lines 72-84 (76-81 of the simple route)
Failed500(request) ==
    Answered(request, ErrorResponse(500, "Failed to generate embeddings"))

\* the validation both routes start with, or none if the body passes
ValidationError(body) ==
    IF InvalidInput400(body)
    THEN Some(ErrorResponse(400, "Invalid input: sentences array is required"))
    ELSE IF TooMany(body)
    THEN Some(ErrorResponse(400, "Too many sentences: maximum 50 allowed"))
    ELSE None

\* the two calls of performTSNE in flight at the same time
RunIds == {1, 2}

\* a call of performTSNE not yet made: its promise, its closure (iterations,
\* the steps its own TSNE object has run), the setTimeout callbacks pending
\* for it, and what has been called or thrown for it
IdleRun ==
    [n |-> 0, dimensions |-> 0, second |-> FALSE,
     promise |-> [state |-> "none", value |-> <<>>],
     iterations |-> 0, steps |-> 0, timers |-> {},
     resolveCalls |-> 0, thrown |-> "none"]

NoCall == [fn |-> "none", args |-> <<>>, outcome |-> [kind |-> "none"]]

Init ==
    /\ caller = "none"
    /\ embeddingData = <<>>
    /\ config = [method |-> "pca", dimensions |-> 2, perplexity |-> Some(30)]
    /\ status = "none"
    /\ error = ""
    /\ result = None
    /\ promise = [state |-> "none", value |-> <<>>]
    /\ tsne = [made |-> FALSE, inited |-> FALSE, perplexity |-> 0, dim |-> 0,
               converged |-> FALSE]
    /\ iterations = 0
    /\ timer = None
    /\ failure = [at |-> "none", deferred |-> FALSE]
    /\ trace = {}
    /\ logged = <<>>
    /\ ui = [isLoading |-> FALSE, embeddings |-> <<>>, processedData |-> None,
             comparisons |-> None, saved |-> FALSE, toast |-> ""]
    /\ call = NoCall
    /\ runs = [r \in RunIds |-> IdleRun]
    /\ server = ServerStart

\* reduceDimensions is entered by caller c with (data, cfg)
Enter(c, data, cfg) ==
    /\ caller = "none"
    /\ caller' = c
    /\ embeddingData' = data
    /\ config' = cfg

\* reduceDimensions returns, and generateEmbeddings (if it called) goes on
Returned(c, u, data, cfg, reduced, variance) ==
    LET processed == Processed(reduced, variance, data, cfg) IN
    /\ status' = "returned"
    /\ result' = Some(processed)
    /\ error' = error
    /\ ui' = IF c = "ui" THEN UIAfterReturn(u, data, processed) ELSE u

\* reduceDimensions throws, and generateEmbeddings (if it called) catches
Thrown(c, u, message) ==
    /\ status' = "thrown"
    /\ error' = message
    /\ result' = result
    /\ ui' = IF c = "ui" THEN UIAfterThrow(u) ELSE u

\* lines 131-133
RejectEmpty(c, u, data, cfg) ==
    /\ Enter(c, data, cfg)
    /\ Len(data) = 0
    /\ Thrown(c, u, NoEmbeddingsMessage)
    /\ UNCHANGED <<promise, tsne, iterations, timer, failure, trace, logged>>

\* lines 135-137
RejectInvalid(c, u, data, cfg) ==
    /\ Enter(c, data, cfg)
    /\ Len(data) # 0
    /\ SomeInvalid(data)
    /\ Thrown(c, u, InvalidEmbeddingsMessage)
    /\ UNCHANGED <<promise, tsne, iterations, timer, failure, trace, logged>>

\* lines 143-147 and 158-176
ReducePCA(c, u, data, cfg) ==
    /\ Enter(c, data, cfg)
    /\ Len(data) # 0
    /\ ~SomeInvalid(data)
    /\ cfg.method = "pca"
    /\ \E r \in performPCA(Vectors(data), cfg.dimensions) :
          /\ Returned(c, u, data, cfg, r.reduced, Some(r.variance))
          /\ trace' = {"performPCA", "performSimpleClustering"}
                      \cup (IF r.ran THEN {"PCA"} ELSE {})
                      \cup (IF r.failed THEN {"PCA threw"} ELSE {})
    /\ UNCHANGED <<promise, tsne, iterations, timer, failure, logged>>


\* lines 149-151 with performTSNE's lines 56-69: fewer than 4 vectors
ReduceTSNESmall(c, u, data, cfg) ==
    /\ Enter(c, data, cfg)
    /\ Len(data) # 0
    /\ ~SomeInvalid(data)
    /\ cfg.method = "tsne"
    /\ Len(data) < MinIterated
    /\ \E seed \in RandomSeeds :
          LET simple == SimpleLayout(Len(data), cfg.dimensions, seed) IN
          /\ promise' = [state |-> "resolved", value |-> simple]
          /\ Returned(c, u, data, cfg, simple, None)
    /\ trace' = {"performTSNE", "performSimpleClustering"}
    /\ UNCHANGED <<tsne, iterations, timer, failure, logged>>

\* where the tsne-js library may throw
FailPoints == {"none", "new", "init", "step", "getSolution"}

\* mutant: the cap compared with > instead of >=
StepIsLastOffByOne(count, converged) == count > maxIterations \/ converged

\* if (iterations >= maxIterations || tsne.isConverged())
StepIsLast(count, converged) == count >= maxIterations \/ converged

\* mutant: the progress branch is tested before the end of the run
stepProgressFirst(count, fail, conv) ==
    IF fail = "step"
    THEN [kind |-> "throw", iterations |-> count, converged |-> FALSE, delay |-> 0]
    ELSE LET next == count + 1
             asked == next < maxIterations
             converged == asked /\ conv
         IN  IF next % 50 = 0
             THEN [kind |-> "schedule", iterations |-> next, converged |-> converged,
                   delay |-> 1]
             ELSE IF StepIsLast(next, converged)
             THEN [kind |-> IF fail = "getSolution" THEN "throw" ELSE "resolve",
                   iterations |-> next, converged |-> converged, delay |-> 0]
             ELSE [kind |-> "schedule", iterations |-> next, converged |-> FALSE,
                   delay |-> 0]

\* one run of step() from iterations = count: what it did, the new count, what
\* isConverged answered if asked, and the delay of the step it scheduled
step(count, fail, conv) ==
    IF fail = "step"
    THEN [kind |-> "throw", iterations |-> count, converged |-> FALSE, delay |-> 0]
    ELSE LET next == count + 1
             asked == next < maxIterations
             converged == asked /\ conv
         IN  IF StepIsLast(next, converged)
             THEN [kind |-> IF fail = "getSolution" THEN "throw" ELSE "resolve",
                   iterations |-> next, converged |-> converged, delay |-> 0]
             ELSE [kind |-> "schedule", iterations |-> next, converged |-> FALSE,
                   delay |-> IF next % 50 = 0 THEN 1 ELSE 0]

\* lines 149-151 with performTSNE's lines 71-118: the executor's synchronous run
StartTSNE(c, u, data, cfg) ==
    /\ Enter(c, data, cfg)
    /\ Len(data) # 0
    /\ ~SomeInvalid(data)
    /\ cfg.method = "tsne"
    /\ Len(data) >= MinIterated
    /\ \E fail \in FailPoints, conv \in BOOLEAN,
          solution \in LibLayouts(Len(data), cfg.dimensions) :
          LET n == Len(data)
              fallback == FallbackLayout(n, cfg.dimensions)
              sr == IF fail \in {"new", "init"}
                    THEN [kind |-> "throw", iterations |-> 0, converged |-> FALSE,
                          delay |-> 0]
                    ELSE step(0, fail, conv)
          IN  /\ tsne' = [made |-> fail # "new",
                          inited |-> fail \notin {"new", "init"},
                          perplexity |-> ClampPerplexity(PerplexityArgument(cfg, n), n),
                          dim |-> cfg.dimensions,
                          converged |-> sr.converged]
              /\ iterations' = sr.iterations
              /\ logged' = IF sr.kind = "schedule" /\ sr.delay = 1
                           THEN Append(logged, sr.iterations) ELSE logged
              /\ \/ /\ sr.kind = "throw"
                    /\ failure' = [at |-> fail, deferred |-> FALSE]
                    /\ promise' = [state |-> "resolved", value |-> fallback]
                    /\ timer' = None
                    /\ trace' = {"performTSNE", "TSNE", "TSNE threw",
                                 "performSimpleClustering"}
                    /\ Returned(c, u, data, cfg, fallback, None)
                 \/ /\ sr.kind = "resolve"
                    /\ failure' = failure
                    /\ promise' = [state |-> "resolved", value |-> solution]
                    /\ timer' = None
                    /\ trace' = {"performTSNE", "TSNE", "performSimpleClustering"}
                    /\ Returned(c, u, data, cfg, solution, None)
                 \/ /\ sr.kind = "schedule"
                    /\ failure' = failure
                    /\ promise' = [state |-> "pending", value |-> <<>>]
                    /\ timer' = Some(sr.delay)
                    /\ trace' = {"performTSNE", "TSNE"}
                    /\ status' = "awaiting"
                    /\ result' = result
                    /\ error' = error
                    /\ ui' = u

\* the callback of setTimeout(step, delay) runs: lines 88-102, outside the try
DeferredStep ==
    /\ timer # None
    /\ \E fail \in {"none", "step", "getSolution"}, conv \in BOOLEAN,
          solution \in LibLayouts(Len(embeddingData), config.dimensions) :
          LET sr == step(iterations, fail, conv) IN
          /\ iterations' = sr.iterations
          /\ tsne' = [tsne EXCEPT !.converged = sr.converged]
          /\ logged' = IF sr.kind = "schedule" /\ sr.delay = 1
                       THEN Append(logged, sr.iterations) ELSE logged
          /\ \/ /\ sr.kind = "throw"
                /\ failure' = [at |-> fail, deferred |-> TRUE]
                /\ timer' = None
                /\ trace' = trace \cup {"TSNE threw", "uncaught exception"}
                /\ UNCHANGED <<promise, status, result, error, ui>>
             \/ /\ sr.kind = "resolve"
                /\ failure' = failure
                /\ timer' = None
                /\ promise' = [state |-> "resolved", value |-> solution]
                /\ trace' = trace \cup {"performSimpleClustering"}
                /\ Returned(caller, ui, embeddingData, config, solution, None)
             \/ /\ sr.kind = "schedule"
                /\ failure' = failure
                /\ timer' = Some(sr.delay)
                /\ UNCHANGED <<promise, trace, status, result, error, ui>>
    /\ UNCHANGED <<caller, embeddingData, config, call, runs, server>>

\* reduceDimensions called as the exported function, on a batch too small for
\* generateEmbeddings to pass on
DirectCall ==
    /\ caller = "none"
    /\ \E data \in Batches(0, 1), cfg \in Configs :
        \/ RejectEmpty("direct", ui, data, cfg)
        \/ RejectInvalid("direct", ui, data, cfg)
        \/ ReducePCA("direct", ui, data, cfg)
        \/ ReduceTSNESmall("direct", ui, data, cfg)
    /\ UNCHANGED <<call, runs, server>>

\* header.tsx generateEmbeddings, lines 282-291: fewer than 2 sentences
NeedMoreSentences ==
    /\ caller = "none"
    /\ caller' = "ui"
    /\ ui' = [ui EXCEPT !.toast = "Need more sentences"]
    /\ UNCHANGED <<embeddingData, config, status, error, result, promise, tsne,
                   iterations, timer, failure, trace, logged, call, runs, server>>

\* header.tsx generateEmbeddings, lines 346-395: the embeddings have arrived,
\* one record per sentence (a record's vector is absent if the API sent fewer)
GenerateEmbeddings ==
    /\ caller = "none"
    /\ \E data \in Batches(2, MaxN), cfg \in Configs :
        LET u == UIStarted(ui, data) IN
        \/ RejectInvalid("ui", u, data, cfg)
        \/ ReducePCA("ui", u, data, cfg)
        \/ ReduceTSNESmall("ui", u, data, cfg)
        \/ StartTSNE("ui", u, data, cfg)
    /\ UNCHANGED <<call, runs, server>>

Next ==
    \/ DirectCall
    \/ NeedMoreSentences
    \/ GenerateEmbeddings
    \/ DeferredStep

Spec == Init /\ [][Next]_vars

\* the host runs a pending timer's callback
FairSpec == Spec /\ WF_vars(DeferredStep)

-----------------------------------------------------------------------------
(* Two calls of performTSNE in flight together.  Each call of performTSNE   *)
(* runs its executor (lines 54-119) with its own iterations, its own TSNE   *)
(* object and its own resolve; the host runs one pending setTimeout         *)
(* callback at a time, of either call, to completion.                       *)

\* the call started second is given at most this many steps: its TSNE object
\* reports convergence then at the latest
SecondRunSteps == 60

\* the steps at which a TSNE object may throw or report convergence early
EventSteps == {1, 2, 50, 51}

\* the batches call r is made on: 3 vectors, or 4 (call 1) or 5 (call 2)
RunSizes(r) == {3, 3 + r}

\* the dimensions call r asks for
RunDimensions(r) == 1 + r

\* what isConverged() may answer in the step that counts next
Convergences(run, next) ==
    IF run.second /\ next >= SecondRunSteps THEN {TRUE}
    ELSE IF next \in EventSteps THEN BOOLEAN ELSE {FALSE}

\* where the TSNE object may throw in the step that counts next
Failures(next) ==
    IF next \in EventSteps THEN {"none", "step", "getSolution"} ELSE {"none"}

\* mutant: the report branch falls through to the plain setTimeout(step, 0)
ScheduledTwiceAfterReport(sr) ==
    IF sr.kind # "schedule" THEN {}
    ELSE IF sr.delay = 1
    THEN {[by |-> sr.iterations, delay |-> 1], [by |-> sr.iterations, delay |-> 0]}
    ELSE {[by |-> sr.iterations, delay |-> 0]}

\* the callbacks a run of step() hands to setTimeout, lines 96-101: none when
\* it resolved or threw, else one, tagged with the step that scheduled it
Scheduled(sr) ==
    IF sr.kind = "schedule" THEN {[by |-> sr.iterations, delay |-> sr.delay]} ELSE {}

\* resolve(value) called on the run's promise: only the first call settles it
Resolved(run, value) ==
    [run EXCEPT !.resolveCalls = @ + 1,
                !.promise = IF @.state = "pending"
                            THEN [state |-> "resolved", value |-> value] ELSE @]

\* the run after one run of step() with outcome sr: inTry tells whether the
\* step ran inside the executor's try (line 104) or as a setTimeout callback
AfterStep(run, sr, fail, solution, inTry) ==
    LET counted == [run EXCEPT !.iterations = sr.iterations,
                               !.steps = IF sr.kind = "throw" /\ fail # "getSolution"
                                         THEN @ ELSE @ + 1,
                               !.timers = @ \cup Scheduled(sr)]
    IN  IF sr.kind = "resolve" THEN Resolved(counted, solution)
        ELSE IF sr.kind = "throw"
        THEN IF inTry
             THEN Resolved([counted EXCEPT !.thrown = fail],
                           FallbackLayout(run.n, run.dimensions))
             ELSE [counted EXCEPT !.thrown = fail]
        ELSE counted

\* mutant: iterations is one counter of the module, shared by every call
StepOfSharedCount(rs, r, sr, fail, solution, inTry) ==
    LET after == AfterStep(rs[r], sr, fail, solution, inTry)
    IN  [q \in RunIds |->
            IF q = r THEN after
            ELSE IF rs[q].promise.state = "none" THEN rs[q]
            ELSE [rs[q] EXCEPT !.iterations = after.iterations]]

\* the calls after call r has run step(): iterations, tsne and resolve are
\* the closure's of call r (lines 71, 85 and 54), no other call's
StepOf(rs, r, sr, fail, solution, inTry) ==
    [rs EXCEPT ![r] = AfterStep(rs[r], sr, fail, solution, inTry)]

\* performTSNE is called: lines 54-119, the executor's synchronous run
StartRun(r) ==
    /\ runs[r].promise.state = "none"
    /\ \E n \in RunSizes(r) :
          LET k == RunDimensions(r)
              started == [IdleRun EXCEPT
                             !.n = n, !.dimensions = k,
                             !.second = \E q \in RunIds : runs[q].promise.state # "none",
                             !.promise = [state |-> "pending", value |-> <<>>]]
          IN  IF n < MinIterated
              THEN \E seed \in RandomSeeds :
                      runs' = [runs EXCEPT ![r] = Resolved(started, SimpleLayout(n, k, seed))]
              ELSE \E fail \in FailPoints, conv \in Convergences(started, 1),
                      solution \in LibLayouts(n, k) :
                      LET sr == IF fail \in {"new", "init"}
                                THEN [kind |-> "throw", iterations |-> 0,
                                      converged |-> FALSE, delay |-> 0]
                                ELSE step(0, fail, conv)
                      IN  runs' = StepOf([runs EXCEPT ![r] = started], r, sr, fail,
                                         solution, TRUE)
    /\ UNCHANGED <<analysis, server>>

\* a callback of setTimeout(step, delay) of call r runs: lines 88-102
RunDeferredStep(r) ==
    /\ \E t \in runs[r].timers :
          LET run == [runs[r] EXCEPT !.timers = @ \ {t}]
              next == run.iterations + 1
          IN  \E fail \in Failures(next), conv \in Convergences(run, next),
                 solution \in LibLayouts(run.n, run.dimensions) :
                 runs' = StepOf([runs EXCEPT ![r] = run], r,
                                step(run.iterations, fail, conv), fail, solution, FALSE)
    /\ UNCHANGED <<analysis, server>>

ConcurrentNext ==
    \/ \E r \in RunIds : StartRun(r)
    \/ \E r \in RunIds : RunDeferredStep(r)

ConcurrentSpec == Init /\ [][ConcurrentNext]_vars

-----------------------------------------------------------------------------
(* The handlers of the two POST routes *)

\* request r after its handler's step, the module's model as it leaves it
Serve(r, request, model, loaded) ==
    /\ server' = [model |-> model, loaded |-> loaded,
                  requests |-> [server.requests EXCEPT ![r] = request]]
    /\ UNCHANGED <<analysis, runs>>

\* a request arrives at one of the routes: the handler awaits request.json()
Receive(r) ==
    /\ server.requests[r].at = "none"
    /\ \E route \in Routes :
          Serve(r, [NoRequest EXCEPT !.route = route, !.at = "json"],
                server.model, server.loaded)

\* embeddings-simple, lines 37-66: the body has arrived
PostSimple(r) ==
    /\ server.requests[r].at = "json"
    /\ server.requests[r].route = "embeddings-simple"
    /\ \E body \in Bodies :
          LET request == [server.requests[r] EXCEPT !.body = body]
              refusal == ValidationError(body)
          IN  Serve(r,
                    IF body.kind = "malformed" THEN Failed500(request)
                    ELSE IF refusal # None THEN Answered(request, refusal[1])
                    ELSE Answered([request EXCEPT !.did = {"embed"}],
                                  Success([i \in 1..Len(body.items) |->
                                              calculateSimpleEmbedding(body.items[i])],
                                          embeddingDimensions)),
                    server.model, server.loaded)

\* embeddings, lines 34-53 and loadModel's line 7: the body has arrived; a
\* body that passes calls loadModel, which starts the imports if (!model)
PostEmbeddings(r) ==
    /\ server.requests[r].at = "json"
    /\ server.requests[r].route = "embeddings"
    /\ \E body \in Bodies :
          LET request == [server.requests[r] EXCEPT !.body = body]
              refusal == ValidationError(body)
          IN  Serve(r,
                    IF body.kind = "malformed" THEN Failed500(request)
                    ELSE IF refusal # None THEN Answered(request, refusal[1])
                    ELSE IF server.model = None
                    THEN [request EXCEPT !.did = {"loadModel"}, !.at = "import"]
                    ELSE [request EXCEPT !.did = {"loadModel"}, !.at = "embed",
                                         !.useModel = server.model],
                    server.model, server.loaded)

\* loadModel, lines 12-21: the imports have arrived (use.load() is called) or
\* one has failed (line 25 throws, POST's catch answers)
ImportLibraries(r) ==
    /\ server.requests[r].at = "import"
    /\ \E ok \in BOOLEAN :
          Serve(r,
                IF ok THEN [server.requests[r] EXCEPT !.at = "load"]
                ELSE Failed500(server.requests[r]),
                server.model, server.loaded)

\* loadModel, lines 21-28, and POST's line 57: use.load() has given a model,
\* which is assigned to model and returned, and embed is called on it; or
\* the load has failed
LoadModel(r) ==
    /\ server.requests[r].at = "load"
    /\ \E ok \in BOOLEAN :
          IF ok
          THEN Serve(r, [server.requests[r] EXCEPT
                            !.at = "embed", !.useModel = Some(server.loaded + 1)],
                     Some(server.loaded + 1), server.loaded + 1)
          ELSE Serve(r, Failed500(server.requests[r]), server.model, server.loaded)

\* line 57-58: embed has given the embeddings tensor, whose array() is
\* called; or embed has failed
Embed(r) ==
    /\ server.requests[r].at = "embed"
    /\ \E ok \in BOOLEAN :
          Serve(r,
                IF ok THEN [server.requests[r] EXCEPT
                               !.at = "array", !.tensor = "live",
                               !.did = @ \cup {"embed"}]
                ELSE Failed500(server.requests[r]),
                server.model, server.loaded)

\* lines 58-70: array() has given one row of 512 numbers per sentence, the
\* tensor is disposed and the response returned; or array() has failed
ReadArray(r) ==
    /\ server.requests[r].at = "array"
    /\ \E ok \in BOOLEAN :
          LET request == server.requests[r]
              row == [c \in 1..embeddingDimensions |-> 0]
              embeddingsArray == [i \in 1..Len(request.body.items) |-> row]
          IN  Serve(r,
                    IF ok
                    THEN Answered([request EXCEPT !.tensor = "disposed"],
                                  Success(embeddingsArray,
                                          IF embeddingsArray = <<>> THEN 0
                                          ELSE Len(embeddingsArray[1])))
                    ELSE Failed500(request),
                    server.model, server.loaded)

ApiNext ==
    \/ \E r \in RequestIds : Receive(r)
    \/ \E r \in RequestIds : PostSimple(r)
    \/ \E r \in RequestIds : PostEmbeddings(r)
    \/ \E r \in RequestIds : ImportLibraries(r)
    \/ \E r \in RequestIds : LoadModel(r)
    \/ \E r \in RequestIds : Embed(r)
    \/ \E r \in RequestIds : ReadArray(r)

ApiSpec == Init /\ [][ApiNext]_vars

-----------------------------------------------------------------------------
(* The exported functions of the library, each called on its own *)

\* the vectors the functions are called on: zero, unit, opposite, of magnitude
\* 5, and two of another length
LibVectors ==
    { <<0, 0>>, <<Milli(1), 0>>, <<Milli(-1), 0>>, <<0, Milli(1)>>,
      <<Milli(3), Milli(4)>>, <<Milli(1), 0, 0>>, <<0, 0, 0>> }

\* all sequences of at most n elements of S
SeqsUpTo(S, n) == UNION { [1..m -> S] : m \in 0..n }

\* a function called, not yet run
CallOf(fn, args) == [fn |-> fn, args |-> args, outcome |-> Pending]

\* the rows performPCA is called on: empty, with zero components, of lengths
\* 2 and 3
PCARows == { <<>>, <<0, 0>>, <<Milli(1), 0>>, <<0, Milli(1)>>, <<Milli(1), 0, 0>> }

PCACalls ==
    { CallOf("performPCA", [embeddings |-> e, dimensions |-> k]) :
        e \in SeqsUpTo(PCARows, MaxBatch), k \in {2, 3} }

\* a function of two vectors called on every pair
PairCalls(fn) == { CallOf(fn, [a |-> a, b |-> b]) : a \in LibVectors, b \in LibVectors }

CompareCalls ==
    { CallOf("compareSentences",
             [sentence1 |-> 1, sentence2 |-> 2, embedding1 |-> a, embedding2 |-> b]) :
        a \in LibVectors, b \in LibVectors }

\* the scores interpreted: every thousandth from -1 to 1
Scores == Milli(-1)..Milli(1)

InterpretCalls == { CallOf("interpretSimilarity", [cosineSim |-> v]) : v \in Scores }

\* the candidates: labelled 1 (as the target is), 2 or 3
LibCandidates ==
    { Record(1, Some(<<Milli(1), 0>>)),
      Record(2, Some(<<Milli(-1), 0>>)),
      Record(2, Some(<<Milli(3), Milli(4)>>)),
      Record(3, Some(<<Milli(1), 0>>)),
      Record(3, Some(<<Milli(3), Milli(4)>>)),
      Record(3, Some(<<Milli(1), 0, 0>>)) }

MostSimilarCalls ==
    { CallOf("findMostSimilar",
             [targetSentence |-> 1, targetEmbedding |-> t, candidates |-> c]) :
        t \in { <<Milli(1), 0>>, <<Milli(3), Milli(4)>> },
        c \in SeqsUpTo(LibCandidates, MaxBatch) }

GroupCalls ==
    { CallOf("calculateGroupSimilarity", [embeddings |-> e]) :
        e \in SeqsUpTo(LibVectors, MaxBatch) }

\* the vectors normalised: those of LibVectors, and two whose length is not a
\* whole number of thousandths
NormalizeVectors == LibVectors \cup { <<Milli(1), Milli(1)>>, <<Milli(1), Milli(2)>> }

NormalizeCalls ==
    { CallOf("normalizeEmbeddings", [embeddings |-> e]) :
        e \in SeqsUpTo(NormalizeVectors, MaxBatch) }

\* the texts embedded: "", "!?", "a", "Hi hi", "a_1 b", "zzzzzz abcdefg" (two
\* negative hashes), "xfjfxtf" (hash -2^31), "hello world zz"
SimpleTexts ==
    { <<>>, <<33, 63>>, <<97>>, <<72, 105, 32, 104, 105>>, <<97, 95, 49, 32, 98>>,
      <<122, 122, 122, 122, 122, 122, 32, 97, 98, 99, 100, 101, 102, 103>>,
      <<120, 102, 106, 102, 120, 116, 102>>,
      <<104, 101, 108, 108, 111, 32, 119, 111, 114, 108, 100, 32, 122, 122>> }

SimpleCalls == { CallOf("calculateSimpleEmbedding", [text |-> t]) : t \in SimpleTexts }

LibCalls ==
    PCACalls \cup PairCalls("cosineSimilarity") \cup PairCalls("euclideanDistance")
    \cup PairCalls("manhattanDistance") \cup PairCalls("dotProduct")
    \cup PairCalls("calculateSimilarityMetrics") \cup CompareCalls
    \cup InterpretCalls \cup MostSimilarCalls \cup GroupCalls \cup NormalizeCalls
    \cup SimpleCalls

\* the functions are called in a module that has analysed nothing
LibInit ==
    /\ caller = "none"
    /\ embeddingData = <<>>
    /\ config = [method |-> "pca", dimensions |-> 2, perplexity |-> Some(30)]
    /\ status = "none"
    /\ error = ""
    /\ result = None
    /\ promise = [state |-> "none", value |-> <<>>]
    /\ tsne = [made |-> FALSE, inited |-> FALSE, perplexity |-> 0, dim |-> 0,
               converged |-> FALSE]
    /\ iterations = 0
    /\ timer = None
    /\ failure = [at |-> "none", deferred |-> FALSE]
    /\ trace = {}
    /\ logged = <<>>
    /\ ui = [isLoading |-> FALSE, embeddings |-> <<>>, processedData |-> None,
             comparisons |-> None, saved |-> FALSE, toast |-> ""]
    /\ call \in LibCalls
    /\ runs = [r \in RunIds |-> IdleRun]
    /\ server = ServerStart

\* the function fn is run to its outcome
Run(fn, outcome) ==
    /\ call.fn = fn
    /\ call.outcome.kind = "pending"
    /\ call' = [call EXCEPT !.outcome = outcome]
    /\ UNCHANGED <<caller, embeddingData, config, status, error, result, promise,
                   tsne, iterations, timer, failure, trace, logged, ui, runs, server>>

\* performPCA(embeddings, dimensions), lines 9-44
CallPerformPCA ==
    /\ call.fn = "performPCA"
    /\ \E r \in performPCA(call.args.embeddings, call.args.dimensions) :
          Run("performPCA", Return(r))

CallCosineSimilarity ==
    Run("cosineSimilarity", cosineSimilarityOutcome(call.args.a, call.args.b))

CallEuclideanDistance ==
    Run("euclideanDistance", euclideanDistanceOutcome(call.args.a, call.args.b))

CallManhattanDistance ==
    Run("manhattanDistance", manhattanDistanceOutcome(call.args.a, call.args.b))

CallDotProduct ==
    Run("dotProduct", dotProductOutcome(call.args.a, call.args.b))

CallCalculateSimilarityMetrics ==
    Run("calculateSimilarityMetrics",
        calculateSimilarityMetricsOutcome(call.args.a, call.args.b))

CallInterpretSimilarity ==
    Run("interpretSimilarity", Return(interpretSimilarity(call.args.cosineSim)))

CallCompareSentences ==
    Run("compareSentences",
        compareSentencesOutcome(call.args.sentence1, call.args.sentence2,
                                call.args.embedding1, call.args.embedding2))

CallFindMostSimilar ==
    Run("findMostSimilar",
        findMostSimilar(call.args.targetSentence, call.args.targetEmbedding,
                        call.args.candidates))

CallCalculateGroupSimilarity ==
    Run("calculateGroupSimilarity", calculateGroupSimilarity(call.args.embeddings))

CallNormalizeEmbeddings ==
    Run("normalizeEmbeddings", Return(normalizeEmbeddings(call.args.embeddings)))

CallCalculateSimpleEmbedding ==
    Run("calculateSimpleEmbedding", Return(calculateSimpleEmbedding(call.args.text)))

LibNext ==
    \/ CallPerformPCA
    \/ CallCosineSimilarity
    \/ CallEuclideanDistance
    \/ CallManhattanDistance
    \/ CallDotProduct
    \/ CallCalculateSimilarityMetrics
    \/ CallInterpretSimilarity
    \/ CallCompareSentences
    \/ CallFindMostSimilar
    \/ CallCalculateGroupSimilarity
    \/ CallNormalizeEmbeddings
    \/ CallCalculateSimpleEmbedding

LibSpec == LibInit /\ [][LibNext]_vars


-----------------------------------------------------------------------------
(* Vocabulary of the claims *)

N == Len(embeddingData)

\* reduceDimensions has been called
Called == status # "none"

\* a record's vector is missing or empty
HasMissingOrEmptyVector ==
    \E i \in 1..N :
        IF embeddingData[i].embedding = None THEN TRUE
        ELSE embeddingData[i].embedding[1] = <<>>

\* two records carry vectors of different lengths
HasMismatchedLengths ==
    \E i, j \in 1..N :
        /\ embeddingData[i].embedding # None
        /\ embeddingData[j].embedding # None
        /\ Len(embeddingData[i].embedding[1]) # Len(embeddingData[j].embedding[1])

\* the input passes the validation the specification asks of reduceDimensions' lines 131-137
PassedValidation == Called /\ N > 0 /\ ~HasMissingOrEmptyVector

InvalidInput == {NoEmbeddingsMessage, InvalidEmbeddingsMessage}

\* the iterative algorithm was started on this call
Iterated == "TSNE" \in trace

-----------------------------------------------------------------------------
(* C1: if the iterative t-SNE algorithm fails anywhere (constructor, init,  *)
(* the first step or a later, deferred step), performTSNE still resolves    *)
(* with the circular fallback layout of N points.  Stated as: whenever the  *)
(* algorithm has failed, the promise is resolved with the fallback layout.  *)
(* The code catches only what the executor runs synchronously; a deferred   *)
(* step that throws leaves the promise pending for ever.                    *)
C1_FailureResolvesWithFallback ==
    failure.at # "none" =>
        /\ promise.state = "resolved"
        /\ promise.value = FallbackLayout(N, config.dimensions)

\* the part of C1 the code keeps: a failure inside the executor's own run
C1_SynchronousFailureSeen ==
    /\ failure.at = "step"
    /\ ~failure.deferred
    /\ promise.state = "resolved"

-----------------------------------------------------------------------------
(* C2: a run of the iterative algorithm whose steps do not fail performs    *)
(* between 1 and 500 steps and resolves with the solution right after the   *)
(* first step at which the count reaches 500 or convergence is reported;    *)
(* with its deferred steps scheduled fairly the run always ends.            *)

\* a further step is pending only below the cap and without convergence; a
\* run resolved with the solution stopped at the cap or at convergence
C2_StepsWithinCap ==
    /\ timer # None =>
          /\ iterations >= 1
          /\ iterations < 500
          /\ ~tsne.converged
          /\ promise.state = "pending"
    /\ (Iterated /\ failure.at = "none" /\ promise.state = "resolved") =>
          /\ iterations >= 1
          /\ iterations <= 500
          /\ (iterations = 500 \/ tsne.converged)
          /\ (tsne.converged => iterations < 500)
          /\ timer = None
          /\ promise.value \in LibLayouts(N, config.dimensions)
    /\ iterations <= 500

\* C2: the steps stay within the cap, and a run with a step pending ends: it
\* resolves (or, outside the claim's case, a step fails)
C2_TerminatesWithinCap ==
    /\ []C2_StepsWithinCap
    /\ (timer # None) ~> (promise.state = "resolved" \/ failure.at # "none")

C2_CapReached ==
    /\ iterations = 500
    /\ promise.state = "resolved"
    /\ failure.at = "none"
    /\ status = "returned"

-----------------------------------------------------------------------------
(* C3: reduceDimensions fails with InvalidInput, returning nothing,         *)
(* whenever two records of the batch have vectors of different lengths.     *)
(* The code never compares the lengths: such a batch reaches the reducers.  *)
C3_MismatchedLengthsRejected ==
    (Called /\ HasMismatchedLengths) =>
        /\ status = "thrown"
        /\ error \in InvalidInput
        /\ result = None

-----------------------------------------------------------------------------
(* C4: reduceDimensions fails with InvalidInput when the record set is      *)
(* empty or a record's vector is missing or empty; then no reducer and no   *)
(* clusterer has been invoked and no result is returned.                    *)
C4_InvalidInputRejected ==
    (Called /\ (N = 0 \/ HasMissingOrEmptyVector)) =>
        /\ status = "thrown"
        /\ error = (IF N = 0 THEN NoEmbeddingsMessage ELSE InvalidEmbeddingsMessage)
        /\ result = None
        /\ trace = {}
        /\ promise.state = "none"
        /\ ~tsne.made
        /\ timer = None

C4_EmptyVectorRejected ==
    /\ status = "thrown"
    /\ N >= 2
    /\ \E i \in 1..N : embeddingData[i].embedding = Some(<<>>)
    /\ config.method = "tsne"

-----------------------------------------------------------------------------
(* C5: once validation has passed, reduceDimensions completes in exactly    *)
(* one of two ways: it returns a result with one reduced point per record,  *)
(* or it raises ReductionFailed.  Stated as: a validated call has returned  *)
(* such a result, or has thrown 'Dimensionality reduction failed', or still *)
(* has a deferred step pending that carries it on.  A deferred step that    *)
(* throws (C1) leaves the call waiting with nothing pending.                *)
ReductionFailed(message) ==
    /\ message # ""
    /\ message \notin InvalidInput

C5_ValidatedCallCompletes ==
    PassedValidation =>
        \/ /\ status = "returned"
           /\ result # None
           /\ Len(result[1].reduced) = N
        \/ /\ status = "thrown"
           /\ ReductionFailed(error)
        \/ /\ status = "awaiting"
           /\ timer # None


-----------------------------------------------------------------------------
-----------------------------------------------------------------------------
(* C7: in every result the reduced points are index-aligned with the input: *)
(* as many reduced points as records, and reduced point i carries the label *)
(* and the identifier of record i, whichever method or fallback produced    *)
(* the layout.                                                              *)
C7_ReducedPointsIndexAligned ==
    result # None =>
        /\ Len(result[1].reduced) = N
        /\ \A i \in 1..N :
              /\ result[1].reduced[i].label = embeddingData[i].sentence
              /\ result[1].reduced[i].id = embeddingData[i].id

C7_FallbackLayoutAligned ==
    /\ result # None
    /\ N = 5
    /\ failure.at # "none"
    /\ result[1].reduced[5].label = embeddingData[5].sentence

-----------------------------------------------------------------------------
(* C8: performTSNE on fewer than 4 vectors never constructs, initialises or *)
(* steps the iterative algorithm; it resolves at once with N points, point  *)
(* i at the fraction i/N of a turn on the unit circle (0, 120 and 240       *)
(* degrees for N = 3), each of k coordinates.                               *)

\* the unit circle's points at 0; 0, 180; 0, 120, 240 degrees, in thousandths
UnitCirclePoints ==
    << << <<1000, 0>> >>,
       << <<1000, 0>>, <<-1000, 0>> >>,
       << <<1000, 0>>, <<-500, 866>>, <<-500, -866>> >> >>

C8_SmallBatchOnUnitCircle ==
    (PassedValidation /\ config.method = "tsne" /\ N < 4) =>
        /\ ~Iterated
        /\ ~tsne.made
        /\ ~tsne.inited
        /\ iterations = 0
        /\ timer = None
        /\ status = "returned"
        /\ promise.state = "resolved"
        /\ Len(promise.value) = N
        /\ \A i \in 1..N :
              /\ Len(promise.value[i]) = config.dimensions
              /\ SubSeq(promise.value[i], 1, 2) = UnitCirclePoints[N][i]
              /\ config.dimensions = 3 =>
                    /\ promise.value[i][3] >= -500
                    /\ promise.value[i][3] < 500
              /\ result[1].reduced[i].x = UnitCirclePoints[N][i][1]
              /\ result[1].reduced[i].y = UnitCirclePoints[N][i][2]

C8_ThreePointsPlaced ==
    /\ PassedValidation
    /\ config.method = "tsne"
    /\ N = 3
    /\ promise.state = "resolved"
    /\ promise.value[2] = <<-500, 866>>
    /\ promise.value[3] = <<-500, -866>>

-----------------------------------------------------------------------------
(* C9: whenever the iterative algorithm is run, the perplexity it is given  *)
(* is at most floor((N-1)/3), whatever perplexity is configured and for the *)
(* default used when none is; 5 vectors with no configured perplexity run   *)
(* with perplexity 1.                                                       *)
C9_PerplexityClamped ==
    Iterated =>
        /\ tsne.perplexity <= (N - 1) \div 3
        /\ 3 * tsne.perplexity <= N - 1
        /\ (N = 5 /\ config.perplexity = None) => tsne.perplexity = 1

C9_FiveVectorsDefaultPerplexity ==
    /\ Iterated
    /\ tsne.made
    /\ N = 5
    /\ config.perplexity = None
    /\ tsne.perplexity = 1

C9_ConfiguredPerplexityLowered ==
    /\ Iterated
    /\ config.perplexity = Some(30)
    /\ tsne.perplexity = 1

-----------------------------------------------------------------------------
(* C10: performPCA on fewer than 2 vectors returns the placeholder without  *)
(* running PCA: point i is (i, 0, 0) cut to k coordinates, so a single      *)
(* vector maps to the origin, and the variance is k values of 0.5.          *)
C10_PCAPlaceholder ==
    /\ (PassedValidation /\ config.method = "pca" /\ N < 2) =>
          /\ status = "returned"
          /\ "PCA" \notin trace
          /\ "PCA threw" \notin trace
          /\ Len(result[1].reduced) = N
          /\ \A i \in 1..N :
                /\ result[1].reduced[i].x = 1000 * (i - 1)
                /\ result[1].reduced[i].y = 0
                /\ result[1].reduced[i].z =
                      (IF config.dimensions = 3 THEN Some(0) ELSE None)
          /\ result[1].variance =
                Some(IF config.dimensions = 3 THEN <<500, 500, 500>> ELSE <<500, 500>>)
    /\ \A k \in {2, 3}, e \in { <<>>, <<(<<0, 1000>>)>>, <<(<<1000, 0, 0>>)>> } :
          \A r \in performPCA(e, k) :
             /\ ~r.ran
             /\ Len(r.reduced) = Len(e)
             /\ \A i \in 1..Len(e) : r.reduced[i] = SubSeq(<<0, 0, 0>>, 1, k)
             /\ r.variance = SubSeq(<<500, 500, 500>>, 1, k)

C10_SingleVectorAtOrigin ==
    /\ PassedValidation
    /\ config.method = "pca"
    /\ config.dimensions = 3
    /\ N = 1
    /\ status = "returned"
    /\ result[1].reduced[1].x = 0
    /\ result[1].variance = Some(<<500, 500, 500>>)

-----------------------------------------------------------------------------
(* Vocabulary of the claims about the clusters *)

\* m is the middle element (0-based index floor(n / 2)) of the values sorted
IsMiddle(m, values) ==
    LET n == Len(values) IN
    /\ \E i \in 1..n : values[i] = m
    /\ Cardinality({ i \in 1..n : values[i] < m }) <= n \div 2
    /\ Cardinality({ i \in 1..n : values[i] <= m }) > n \div 2

\* the quadrant of a point about (mx, my), ties on the greater-or-equal side
QuadrantName(p, mx, my) ==
    IF p.x >= mx
    THEN (IF p.y >= my THEN "Top-Right" ELSE "Bottom-Right")
    ELSE (IF p.y >= my THEN "Top-Left" ELSE "Bottom-Left")

\* where the label of point p is listed: (cluster, position) pairs
ListedAt(clusters, p) ==
    { cp \in (1..Len(clusters)) \X (1..MaxN + 1) :
        /\ cp[2] <= Len(clusters[cp[1]].sentences)
        /\ clusters[cp[1]].sentences[cp[2]] = p.label }

\* four points on the corners of a rectangle
PerfectGrid(pts) ==
    LET xset == { pts[i].x : i \in 1..Len(pts) }
        yset == { pts[i].y : i \in 1..Len(pts) }
    IN  /\ Len(pts) = 4
        /\ Cardinality(xset) = 2
        /\ Cardinality(yset) = 2
        /\ { <<pts[i].x, pts[i].y>> : i \in 1..Len(pts) } = xset \X yset

-----------------------------------------------------------------------------
(* C13: for 2 or more reduced points the clusterer partitions them about    *)
(* the middle elements of the sorted x and of the sorted y: every point is  *)
(* listed in exactly one cluster, the one named after its quadrant, with a  *)
(* coordinate equal to the median on the greater-or-equal side on both      *)
(* axes; the clusters are non-empty and no two have the same name, so there *)
(* is one per non-empty quadrant; four points on a 2x2 grid give 4 clusters *)
(* of 1 member.                                                             *)
C13_QuadrantPartition ==
    (result # None /\ N >= 2) =>
        LET pts == result[1].reduced
            cl  == result[1].clusters
            xs  == [i \in 1..Len(pts) |-> pts[i].x]
            ys  == [i \in 1..Len(pts) |-> pts[i].y]
            mx  == CHOOSE m \in { xs[i] : i \in 1..Len(xs) } : IsMiddle(m, xs)
            my  == CHOOSE m \in { ys[i] : i \in 1..Len(ys) } : IsMiddle(m, ys)
        IN  /\ \E m \in { xs[i] : i \in 1..Len(xs) } : IsMiddle(m, xs)
            /\ \E m \in { ys[i] : i \in 1..Len(ys) } : IsMiddle(m, ys)
            /\ \A c \in 1..Len(cl) :
                  /\ Len(cl[c].sentences) > 0
                  /\ cl[c].label \in
                        {"Top-Right", "Top-Left", "Bottom-Right", "Bottom-Left"}
                  /\ \A d \in 1..Len(cl) : d # c => cl[d].label # cl[c].label
            /\ \A i \in 1..Len(pts) :
                  /\ Cardinality(ListedAt(cl, pts[i])) = 1
                  /\ \A cp \in ListedAt(cl, pts[i]) :
                        cl[cp[1]].label = QuadrantName(pts[i], mx, my)
            /\ SumSeq([c \in 1..Len(cl) |-> Len(cl[c].sentences)]) = Len(pts)
            /\ PerfectGrid(pts) =>
                  /\ Len(cl) = 4
                  /\ \A c \in 1..4 : Len(cl[c].sentences) = 1

C13_GridGivesFourClusters ==
    /\ result # None
    /\ N = 4
    /\ PerfectGrid(result[1].reduced)
    /\ Len(result[1].clusters) = 4
    /\ result[1].clusters[2].label = "Top-Left"
    /\ result[1].clusters[2].sentences = <<3>>

C13_TiesOnBothAxes ==
    /\ result # None
    /\ N = 3
    /\ \A i \in 1..3 : result[1].reduced[i].x = 0 /\ result[1].reduced[i].y = 0
    /\ Len(result[1].clusters) = 1

-----------------------------------------------------------------------------
(* C14: every cluster's centroid has as many coordinates as the reduced     *)
(* dimensionality of the run (2 or 3), each the mean of that coordinate     *)
(* over the cluster's members.  The code builds [centroidX, centroidY] in   *)
(* every run: in a 3D run the centroid has no third coordinate.             *)
MembersOf(cluster) ==
    { i \in 1..Len(result[1].reduced) :
        \E k \in 1..Len(cluster.sentences) :
            cluster.sentences[k] = result[1].reduced[i].label }

RECURSIVE SumOver(_, _)
SumOver(S, f) ==
    IF S = {} THEN 0
    ELSE LET i == CHOOSE j \in S : TRUE IN f[i] + SumOver(S \ {i}, f)

\* coordinate c (1 for x, 2 for y, 3 for z) of reduced point i
Coordinate(i, c) ==
    IF c = 1 THEN result[1].reduced[i].x
    ELSE IF c = 2 THEN result[1].reduced[i].y
    ELSE result[1].reduced[i].z[1]

C14_CentroidMatchesDimensionality ==
    result # None =>
        \A c \in 1..Len(result[1].clusters) :
            LET cluster == result[1].clusters[c]
                members == MembersOf(cluster)
            IN  /\ Len(cluster.centroid) = config.dimensions
                /\ \A d \in 1..config.dimensions :
                      /\ cluster.centroid[d].count = Cardinality(members)
                      /\ cluster.centroid[d].sum =
                            SumOver(members, [i \in members |-> Coordinate(i, d)])

-----------------------------------------------------------------------------
(* C15: the clusterer given fewer than 2 points returns no clusters and     *)
(* does not raise: the analysis of a single valid record returns a result   *)
(* with one reduced point and an empty cluster list, whichever method.      *)
C15_SinglePointNoClusters ==
    /\ (result # None /\ Len(result[1].reduced) < 2) => result[1].clusters = <<>>
    /\ (PassedValidation /\ N = 1) =>
          /\ status = "returned"
          /\ result # None
          /\ Len(result[1].reduced) = 1
          /\ result[1].clusters = <<>>

C15_SingleRecordAnalysed ==
    /\ PassedValidation
    /\ N = 1
    /\ config.method = "tsne"
    /\ status = "returned"
    /\ Len(result[1].reduced) = 1
    /\ "performSimpleClustering" \in trace
    /\ result[1].clusters = <<>>

-----------------------------------------------------------------------------
(* Vocabulary of the claims about the exported functions *)

\* the function fn has been run
Ran(fn) == call.fn = fn /\ call.outcome.kind # "pending"

\* performPCA has been run and its PCA computation failed
PCAFailed ==
    /\ Ran("performPCA")
    /\ call.outcome.kind = "return"
    /\ call.outcome.value.failed

-----------------------------------------------------------------------------
(* C11: when the PCA computation fails, performPCA does not raise: it       *)
(* returns exactly N points of k coordinates each and k variance values,    *)
(* all of them the one placeholder 0.3; whatever the batch, performPCA      *)
(* returns.                                                                 *)
C11_FallbackNeverRaises ==
    /\ Ran("performPCA") => call.outcome.kind = "return"
    /\ PCAFailed =>
          LET e == call.args.embeddings
              k == call.args.dimensions
              r == call.outcome.value
          IN  /\ Len(r.reduced) = Len(e)
              /\ \A i \in 1..Len(e) : Len(r.reduced[i]) = k
              /\ Len(r.variance) = k
              /\ \A c \in 1..k : r.variance[c] = 300

C11_RaggedBatchLaidOut ==
    /\ PCAFailed
    /\ call.args.embeddings = << <<1000, 0>>, <<>>, <<1000, 0, 0>> >>
    /\ call.args.dimensions = 2
    /\ Len(call.outcome.value.reduced) = 3

-----------------------------------------------------------------------------
(* C12: in the layout of the PCA failure fallback, each coordinate of point *)
(* i is the raw component of vector i at the same position whenever the     *)
(* vector has that component.  The code writes "emb[c] || substitute",      *)
(* which also substitutes for a component that is there and is 0.           *)
C12_FallbackKeepsRawComponents ==
    PCAFailed =>
        LET e == call.args.embeddings
            r == call.outcome.value
        IN  \A i \in 1..Len(e) :
               \A c \in 1..call.args.dimensions :
                  c <= Len(e[i]) => r.reduced[i][c] = e[i][c]

-----------------------------------------------------------------------------
(* C16, as claimed: findMostSimilar returns the candidate of maximal cosine *)
(* similarity among those labelled otherwise than the target, and returns   *)
(* none exactly when there is no such candidate.  Stated for candidates of  *)
(* the target's length.  The scan starts from maxSimilarity = -1 and keeps  *)
(* a candidate only if its similarity is greater: a candidate opposite to   *)
(* the target (similarity -1) is never kept.                                *)

\* the candidates labelled otherwise than the target
Eligible ==
    { i \in 1..Len(call.args.candidates) :
        call.args.candidates[i].sentence # call.args.targetSentence }

SimilarityTo(i) ==
    cosineSimilarity(call.args.targetEmbedding, call.args.candidates[i].embedding[1])

CandidatesOfTargetLength ==
    \A i \in 1..Len(call.args.candidates) :
        Len(call.args.candidates[i].embedding[1]) = Len(call.args.targetEmbedding)

C16_MostSimilarFound ==
    (Ran("findMostSimilar") /\ CandidatesOfTargetLength) =>
        /\ call.outcome.kind = "return"
        /\ (call.outcome.value = None) <=> (Eligible = {})
        /\ call.outcome.value # None =>
              \E i \in Eligible :
                 /\ call.outcome.value[1].sentence = call.args.candidates[i].sentence
                 /\ call.outcome.value[1].similarity = SimilarityTo(i)
                 /\ \A j \in Eligible : SimilarityTo(j) <= SimilarityTo(i)

-----------------------------------------------------------------------------
(* C17: on two vectors of different lengths cosineSimilarity,               *)
(* euclideanDistance, manhattanDistance and dotProduct each throw           *)
(* 'Vectors must have the same length', and so do the functions built on    *)
(* them: calculateSimilarityMetrics, compareSentences,                      *)
(* calculateGroupSimilarity on a batch holding two such vectors, and        *)
(* findMostSimilar on such a candidate labelled otherwise than the target.  *)
PairFunctions ==
    {"cosineSimilarity", "euclideanDistance", "manhattanDistance", "dotProduct",
     "calculateSimilarityMetrics"}

SignalsMismatch ==
    /\ call.outcome.kind = "throw"
    /\ call.outcome.message = "Vectors must have the same length"

C17_MismatchSignalled ==
    /\ (call.fn \in PairFunctions /\ Ran(call.fn)
           /\ Len(call.args.a) # Len(call.args.b)) => SignalsMismatch
    /\ (Ran("compareSentences")
           /\ Len(call.args.embedding1) # Len(call.args.embedding2)) => SignalsMismatch
    /\ (Ran("calculateGroupSimilarity")
           /\ \E i, j \in 1..Len(call.args.embeddings) :
                 Len(call.args.embeddings[i]) # Len(call.args.embeddings[j]))
          => SignalsMismatch
    /\ (Ran("findMostSimilar")
           /\ \E i \in Eligible :
                 Len(call.args.candidates[i].embedding[1])
                    # Len(call.args.targetEmbedding))
          => SignalsMismatch

C17_GroupWithOddVectorThrows ==
    /\ Ran("calculateGroupSimilarity")
    /\ call.args.embeddings = << <<1000, 0>>, <<0, 1000>>, <<1000, 0, 0>> >>
    /\ call.outcome.kind = "throw"

C17_ShorterFirstVectorThrows ==
    /\ Ran("dotProduct")
    /\ call.args.a = <<1000, 0>>
    /\ call.args.b = <<1000, 0, 0>>
    /\ call.outcome.kind = "throw"

-----------------------------------------------------------------------------
(* C18: cosineSimilarity of two vectors of one length, one of them zero, is *)
(* exactly 0 (returned, not thrown), and compareSentences reads such a pair *)
(* as the lowest band, 'Different', with confidence low.                    *)
IsZero(v) == \A i \in 1..Len(v) : v[i] = 0

C18_ZeroVectorScoresZero ==
    /\ (Ran("cosineSimilarity") /\ Len(call.args.a) = Len(call.args.b)
           /\ (IsZero(call.args.a) \/ IsZero(call.args.b))) =>
          /\ call.outcome.kind = "return"
          /\ call.outcome.value = 0
    /\ (Ran("compareSentences")
           /\ Len(call.args.embedding1) = Len(call.args.embedding2)
           /\ (IsZero(call.args.embedding1) \/ IsZero(call.args.embedding2))) =>
          /\ call.outcome.kind = "return"
          /\ call.outcome.value.metrics.cosineSimilarity = 0
          /\ call.outcome.value.interpretation
                = "Different - distinct meanings or topics"
          /\ call.outcome.value.confidenceLevel = "low"

C18_ZeroAgainstNonZeroCompared ==
    /\ Ran("compareSentences")
    /\ call.args.embedding1 = <<0, 0>>
    /\ call.args.embedding2 = <<3000, 4000>>
    /\ call.outcome.kind = "return"
    /\ call.outcome.value.metrics.euclideanDistance = 5000
    /\ call.outcome.value.confidenceLevel = "low"

-----------------------------------------------------------------------------
(* C19: interpretSimilarity maps every score to the one band that holds it, *)
(* the bands being [0.9, ..), [0.8, 0.9), [0.7, 0.8), [0.5, 0.7),           *)
(* [0.3, 0.5) and (.., 0.3) with the tiers high, high, medium, medium, low, *)
(* low: a score equal to a threshold is in the band above it, every score   *)
(* is in exactly one band, and the tier does not decrease as the score      *)
(* increases.                                                               *)
BandText ==
    << "Extremely similar - nearly identical meaning",
       "Very similar - closely related concepts",
       "Similar - related themes or topics",
       "Somewhat similar - some shared concepts",
       "Slightly similar - few shared elements",
       "Different - distinct meanings or topics" >>

BandTier == << "high", "high", "medium", "medium", "low", "low" >>

BandFrom == << 900, 800, 700, 500, 300 >>

\* the score is in band k: at or above its threshold, below the one above
InBand(score, k) ==
    /\ (k <= 5 => score >= BandFrom[k])
    /\ (k >= 2 => score < BandFrom[k - 1])

TierRank(tier) == IF tier = "high" THEN 3 ELSE IF tier = "medium" THEN 2 ELSE 1

C19_OneBandPerScore ==
    Ran("interpretSimilarity") =>
        LET score == call.args.cosineSim
            bands == { k \in 1..6 : InBand(score, k) }
        IN  /\ call.outcome.kind = "return"
            /\ Cardinality(bands) = 1
            /\ \A k \in bands :
                  /\ call.outcome.value.interpretation = BandText[k]
                  /\ call.outcome.value.confidenceLevel = BandTier[k]
            /\ Cardinality({ k \in 1..6 :
                               call.outcome.value.interpretation = BandText[k] }) = 1
            /\ TierRank(interpretSimilarity(score + 1).confidenceLevel)
                  >= TierRank(call.outcome.value.confidenceLevel)

C19_ThresholdInUpperBand ==
    /\ Ran("interpretSimilarity")
    /\ call.args.cosineSim = 800
    /\ call.outcome.value.interpretation = "Very similar - closely related concepts"
    /\ call.outcome.value.confidenceLevel = "high"

-----------------------------------------------------------------------------
(* C20: calculateGroupSimilarity returns 1 for a batch of 0 or 1 vectors,   *)
(* and for N >= 2 vectors of one length the sum of the cosine similarities  *)
(* of the N(N-1)/2 unordered pairs, each counted once, divided by           *)
(* N(N-1)/2.                                                                *)
C20_GroupSimilarityIsPairMean ==
    (Ran("calculateGroupSimilarity")
       /\ \A i, j \in 1..Len(call.args.embeddings) :
             Len(call.args.embeddings[i]) = Len(call.args.embeddings[j])) =>
        LET e == call.args.embeddings
            n == Len(e)
            pairs == { p \in (1..n) \X (1..n) : p[1] < p[2] }
        IN  /\ call.outcome.kind = "return"
            /\ n < 2 => call.outcome.value = 1000
            /\ n >= 2 =>
                  /\ Cardinality(pairs) = (n * (n - 1)) \div 2
                  /\ call.outcome.value =
                        SumOver(pairs, [p \in pairs |->
                                          cosineSimilarity(e[p[1]], e[p[2]])])
                           \div ((n * (n - 1)) \div 2)

C20_ThreeVectorsAveraged ==
    /\ Ran("calculateGroupSimilarity")
    /\ call.args.embeddings = << <<1000, 0>>, <<0, 1000>>, <<3000, 4000>> >>
    /\ call.outcome.kind = "return"
    /\ call.outcome.value = 466

C20_SingleVectorGivesOne ==
    /\ Ran("calculateGroupSimilarity")
    /\ Len(call.args.embeddings) = 1
    /\ call.outcome.value = 1000

-----------------------------------------------------------------------------
(* Vocabulary of C21 *)

\* v and w have the same length and differ by at most d in every component
Within(v, w, d) ==
    /\ Len(v) = Len(w)
    /\ \A c \in 1..Len(v) : Abs(v[c] - w[c]) <= d

\* the batch normalizeEmbeddings was called on, and the batch it returned
NormalizeInput == call.args.embeddings
NormalizeOutput == call.outcome.value

\* one vector per input vector, each of its vector's length, a zero vector
\* with its components unchanged
NormalizeKeepsShape ==
    /\ Len(NormalizeOutput) = Len(NormalizeInput)
    /\ \A i \in 1..Len(NormalizeInput) :
          /\ Len(NormalizeOutput[i]) = Len(NormalizeInput[i])
          /\ IsZero(NormalizeInput[i]) => NormalizeOutput[i] = NormalizeInput[i]

-----------------------------------------------------------------------------
-----------------------------------------------------------------------------
(* C22: the result reduceDimensions returns carries variance values if and  *)
(* only if the configured method is PCA (the placeholder and the fallback   *)
(* of performPCA included), and then exactly as many as the dimensions      *)
(* asked for; a t-SNE result carries none; the result's method is the       *)
(* configured method.                                                       *)
C22_VarianceIffPCA ==
    result # None =>
        /\ result[1].method = config.method
        /\ (result[1].variance # None) <=> (config.method = "pca")
        /\ result[1].variance # None =>
              Len(result[1].variance[1]) = config.dimensions

\* a PCA run in 3 dimensions that fell back, with its three placeholders
C22_FallbackCarriesVariance ==
    /\ result # None
    /\ config.method = "pca"
    /\ config.dimensions = 3
    /\ "PCA threw" \in trace
    /\ result[1].variance = Some(<<300, 300, 300>>)

\* a t-SNE run that iterated and returned without variance
C22_TSNECarriesNone ==
    /\ result # None
    /\ Iterated
    /\ result[1].method = "tsne"
    /\ result[1].variance = None

-----------------------------------------------------------------------------
(* Vocabulary of C25 *)

\* the run ended in the iteration counted last: it converged there, or reached
\* the cap, or getSolution threw (a throw of tsne.step() is before the count)
EndedAtLastIteration == Iterated /\ timer = None /\ failure.at # "step"

\* the iterations after which progress is due: the multiples of 50 among
\* those counted, the one the run ended in left out
ProgressDue ==
    LET m == IF EndedAtLastIteration /\ iterations > 0
             THEN (iterations - 1) \div 50 ELSE iterations \div 50
    IN  [j \in 1..m |-> 50 * j]

-----------------------------------------------------------------------------
(* C25: progress is reported after iteration i exactly when i is a multiple *)
(* of 50 and the run has neither converged nor reached the cap at i, once   *)
(* each and in order; after a report the next step is scheduled (1 ms       *)
(* later), and every step run counts exactly one more iteration.            *)
C25_ProgressEveryFifty ==
    /\ [](/\ logged = ProgressDue
          /\ \A j \in 1..Len(logged) : logged[j] < maxIterations
          /\ tsne.converged =>
                (timer = None /\ \A j \in 1..Len(logged) : logged[j] < iterations)
          /\ timer # None => timer = Some(IF iterations % 50 = 0 THEN 1 ELSE 0)
          /\ (timer # None /\ iterations % 50 = 0) =>
                (logged # <<>> /\ logged[Len(logged)] = iterations))
    /\ [][/\ iterations' \in {iterations, iterations + 1}
          /\ (iterations' = iterations /\ Iterated) => failure'.at = "step"
          /\ Len(logged') > Len(logged) => timer' = Some(1)]_vars

\* the run has reported at 50 and at 100 and gone on to iteration 120
C25_ReportedTwiceAndWentOn ==
    /\ logged = <<50, 100>>
    /\ iterations = 120
    /\ timer = Some(0)

\* the run converged at iteration 100: no report for it
C25_ConvergedOnMultiple ==
    /\ logged = <<50>>
    /\ iterations = 100
    /\ promise.state = "resolved"

-----------------------------------------------------------------------------
(* C23: the iterations of a run are run one after another, each as its own  *)
(* callback: at most one deferred step of a run is pending at any time, it  *)
(* was scheduled by the step counted last, of a run still pending; a        *)
(* callback counts one iteration and only a step that ran schedules the     *)
(* next, so between two steps of a run the host is free to run another      *)
(* call's step.                                                             *)
C23_OneStepPending ==
    /\ [](\A r \in RunIds :
            /\ Cardinality(runs[r].timers) <= 1
            /\ \A t \in runs[r].timers :
                  /\ t.by = runs[r].iterations
                  /\ runs[r].promise.state = "pending"
                  /\ runs[r].thrown = "none"
                  /\ runs[r].iterations < maxIterations)
    /\ [][\A r \in RunIds :
            /\ runs'[r].iterations \in {runs[r].iterations, runs[r].iterations + 1}
            /\ (runs'[r].timers # {} /\ runs'[r].timers # runs[r].timers) =>
                  /\ runs[r].timers \cap runs'[r].timers = {}
                  /\ runs'[r].iterations = runs[r].iterations + 1]_vars

\* call 1 waits for its step 51 (after a report) while call 2 waits for its
\* step 4: their steps have been interleaved
C23_StepsInterleaved ==
    /\ runs[1].timers = {[by |-> 50, delay |-> 1]}
    /\ runs[2].timers = {[by |-> 3, delay |-> 0]}

-----------------------------------------------------------------------------
(* C24: two calls in flight together do not affect each other: a step of    *)
(* one call changes nothing of the other; each call's iteration count is    *)
(* the number of steps its own TSNE object has run, at most 500; and a call *)
(* resolves with a layout of its own batch, in its own dimensions.          *)
C24_RunsIndependent ==
    /\ [](\A r \in RunIds :
            /\ runs[r].iterations = runs[r].steps
            /\ runs[r].steps <= maxIterations
            /\ runs[r].promise.state # "none" =>
                  /\ runs[r].n \in RunSizes(r)
                  /\ runs[r].dimensions = RunDimensions(r)
            /\ runs[r].promise.state = "resolved" =>
                  /\ Len(runs[r].promise.value) = runs[r].n
                  /\ \A i \in 1..runs[r].n :
                        Len(runs[r].promise.value[i]) = runs[r].dimensions)
    /\ [][\A r \in RunIds :
            runs'[r] # runs[r] => \A q \in RunIds \ {r} : runs'[q] = runs[q]]_vars

\* call 1 ran to the cap while call 2, started meanwhile, converged at its
\* step 51; each has resolved with its own layout
C24_BothResolvedWithOwnLayout ==
    /\ runs[1].promise.state = "resolved"
    /\ runs[1].iterations = maxIterations
    /\ Len(runs[1].promise.value) = 4
    /\ runs[2].promise.state = "resolved"
    /\ runs[2].second
    /\ runs[2].iterations = 51
    /\ Len(runs[2].promise.value) = 5

-----------------------------------------------------------------------------
(* C29: performTSNE settles its promise exactly once and only by resolving: *)
(* a call with no step pending has been resolved, by one call of resolve;   *)
(* a resolved call has no step pending; no call is rejected.                *)
C29_SettlesOnceByResolving ==
    \A r \in RunIds :
        /\ (runs[r].promise.state # "none" /\ runs[r].timers = {}) =>
              (runs[r].promise.state = "resolved" /\ runs[r].resolveCalls = 1)
        /\ runs[r].promise.state = "resolved" => runs[r].timers = {}
        /\ runs[r].promise.state # "rejected"

-----------------------------------------------------------------------------
(* Vocabulary of C30 *)

\* the words of the text calculateSimpleEmbedding was called on
WordsEmbedded == MatchWords(call.args.text)

\* the least 32-bit integer, -2^31
MinInt32 == (-32768) * 65536

-----------------------------------------------------------------------------
(* C30: the slot of each word, the absolute value of its wrapped 32-bit     *)
(* hash modulo 512, is in 0..511, whether the hash overflowed, is negative  *)
(* or is -2^31; every embedding has exactly 512 components and is the zero  *)
(* vector when the text has no word, and else of unit length (its squares   *)
(* sum to 1 within 0.01, the rounding of the quotients).                    *)
C30_SlotInRangeAndUnitLength ==
    Ran("calculateSimpleEmbedding") =>
        LET e == call.outcome.value IN
        /\ \A i \in 1..Len(WordsEmbedded) :
              /\ hashString(WordsEmbedded[i]) >= MinInt32
              /\ hashString(WordsEmbedded[i]) <= -(MinInt32 + 1)
              /\ Slot(hashString(WordsEmbedded[i])) \in 0..(embeddingDimensions - 1)
              /\ e[Slot(hashString(WordsEmbedded[i])) + 1] > 0
        /\ Len(e) = embeddingDimensions
        /\ IF WordsEmbedded = <<>> THEN IsZero(e)
           ELSE Abs(SumOfSquares(e) - Milli(1)) <= 10

\* the word whose hash is -2^31 embedded: slot 0 carries the whole length
C30_MinHashEmbedded ==
    /\ Ran("calculateSimpleEmbedding")
    /\ Len(WordsEmbedded) = 1
    /\ hashString(WordsEmbedded[1]) = MinInt32
    /\ call.outcome.value[1] = Milli(1)

\* "zzzzzz abcdefg": two overflowed, negative hashes, slots 64 and 412
C30_NegativeHashesEmbedded ==
    /\ Ran("calculateSimpleEmbedding")
    /\ Len(WordsEmbedded) = 2
    /\ hashString(WordsEmbedded[1]) = -685785664
    /\ hashString(WordsEmbedded[2]) = -1206291356
    /\ call.outcome.value[65] > call.outcome.value[413]
    /\ call.outcome.value[413] > 0

-----------------------------------------------------------------------------
(* Vocabulary of C26 to C28 *)

\* the requests that have been answered
AnsweredRequests == { r \in RequestIds : server.requests[r].response # None }

\* the number of sentences in the body of request r
SentenceCount(r) == Len(server.requests[r].body.items)

-----------------------------------------------------------------------------
(* C26: whatever the interleaving of the requests, the Universal Sentence   *)
(* Encoder is loaded at most once, and a request that calls loadModel after *)
(* a load has completed is given the cached model.                          *)
C26_ModelLoadedAtMostOnce ==
    /\ server.loaded <= 1
    /\ \A r \in RequestIds :
          server.requests[r].useModel # None => server.requests[r].useModel = Some(1)

-----------------------------------------------------------------------------
(* C27: both routes accept at most 50 sentences: a body whose sentences     *)
(* field is missing, not an array, empty or holds more than 50 is answered  *)
(* with 400 before the model is loaded or an embedding generated; a body of *)
(* 1 to 50 sentences is never answered with 400, and answered with 200 it   *)
(* gets one embedding per sentence and a count equal to their number.  (A   *)
(* body that does not parse has no sentences field; it is answered 500.)    *)
C27_AtMostFiftySentences ==
    \A r \in AnsweredRequests :
        LET request == server.requests[r]
            response == request.response[1]
        IN  /\ (\/ request.body.kind \in {"undefined", "string"}
                \/ /\ request.body.kind = "array"
                   /\ SentenceCount(r) = 0 \/ SentenceCount(r) > 50)
                  <=> (response.status = 400)
            /\ response.status = 400 => request.did = {} /\ request.useModel = None
            /\ response.status = 200 =>
                  /\ SentenceCount(r) \in 1..50
                  /\ Len(response.embeddings) = SentenceCount(r)
                  /\ response.count = SentenceCount(r)
                  /\ \A i \in 1..SentenceCount(r) : Len(response.embeddings[i]) = 512

\* 50 sentences embedded by the simple route, 51 turned away by the other
C27_FiftyServedFiftyOneRefused ==
    /\ server.requests[1].route = "embeddings-simple"
    /\ SentenceCount(1) = 50
    /\ server.requests[1].response # None
    /\ server.requests[1].response[1].status = 200
    /\ server.requests[1].response[1].count = 50
    /\ server.requests[2].route = "embeddings"
    /\ SentenceCount(2) = 51
    /\ server.requests[2].response # None
    /\ server.requests[2].response[1].status = 400

-----------------------------------------------------------------------------
(* C28: the embeddings tensor of a request is disposed before the request   *)
(* is answered, on the successful path and on the failing ones.             *)
C28_TensorDisposedBeforeAnswer ==
    \A r \in AnsweredRequests : server.requests[r].tensor # "live"

====
